---- MODULE Spec2Model ----
(***************************************************************************)
(* Creative Direction Questionnaire: the Streamlit session store, the      *)
(* FormSession model, the validation service, the export serializer and    *)
(* the navigation callbacks of app.py.                                     *)
(*                                                                         *)
(* Conventions.                                                            *)
(*  - Optional[T] is a sequence of length 0 (None) or 1 (the value).       *)
(*  - A Python str is a record PyStr(text, lead, core, trail): text names  *)
(*    the content left after strip(), lead/trail count the whitespace       *)
(*    characters before/after it and core is len(s.strip()).               *)
(*  - A message is Msg(code, a, b): code names the f-string template and   *)
(*    a, b are the numbers it interpolates.                                *)
(*  - The JSON string produced by export_to_json is represented by the     *)
(*    document it encodes.                                                 *)
(*  - Response.timestamp and FileReference.upload_timestamp are written    *)
(*    once and never read by navigation; they are left out of the records. *)
(***************************************************************************)
EXTENDS Integers, Sequences, FiniteSets, TLC

\* ------------------------------------------------------------------ bounds
\* Number of sessions a browser tab may create (initial one plus resets).
MaxSessions == 2
\* Largest reading of the wall clock, datetime.now(UTC), in minutes.
MaxClock == 1
\* Longest e-mail candidate enumerated character by character.
MaxEmailLen == 6
\* Longest batch of files enumerated file by file.
MaxBatchLen == 4
\* Most add_response calls made to build a session handed to the export.
MaxExportLen == 3

\* ------------------------------------------------------------- Python values
None == << >>
Some(x) == << x >>
IsNone(o) == Len(o) = 0
Value(o) == o[1]

PyNone == [kind |-> "none", text |-> "", lead |-> 0, core |-> 0, trail |-> 0,
           items |-> << >>, files |-> << >>]
PyStr(text, lead, core, trail) ==
    [kind |-> "str", text |-> text, lead |-> lead, core |-> core, trail |-> trail,
     items |-> << >>, files |-> << >>]
PyList(items) == [kind |-> "list", text |-> "", lead |-> 0, core |-> 0, trail |-> 0,
                  items |-> items, files |-> << >>]
PyFiles(files) == [kind |-> "list", text |-> "", lead |-> 0, core |-> 0, trail |-> 0,
                   items |-> << >>, files |-> files]
EmptyStr == PyStr("", 0, 0, 0)

\* len(s) for a str, len(l) for a list.
PyLen(v) == IF v.kind = "str" THEN v.lead + v.core + v.trail
            ELSE Len(v.items) + Len(v.files)
\* s.strip()
PyStrip(v) == PyStr(v.text, 0, v.core, 0)
\* bool(v): None, "" and [] are falsy.
Truthy(v) == v.kind # "none" /\ PyLen(v) > 0
\* v in (None, "", [])
IsEmptyValue(v) == v.kind = "none" \/ PyLen(v) = 0

Msg(code, a, b) == [code |-> code, a |-> a, b |-> b]
Result(ok, err) == [ok |-> ok, error |-> err]
Accept == Result(TRUE, None)
Reject(m) == Result(FALSE, Some(m))

\* ------------------------------------------------------ src/models/question.py
MULTIPLE_CHOICE == "multiple_choice"
CHECKBOXES == "checkboxes"
SHORT_ANSWER == "short_answer"
PARAGRAPH == "paragraph"
FILE_UPLOAD == "file_upload"
QuestionType == {MULTIPLE_CHOICE, CHECKBOXES, SHORT_ANSWER, PARAGRAPH, FILE_UPLOAD}

ValidationRule(required) ==
    [required |-> required, min_length |-> None, max_length |-> None,
     min_selections |-> None, max_selections |-> None,
     allowed_file_types |-> None, max_file_size_mb |-> None,
     max_total_size_mb |-> None, min_files |-> None, max_files |-> None]

Question(id, type, options, validation) ==
    [id |-> id, text |-> id, type |-> type, options |-> options, validation |-> validation]

\* ---------------------------------------------------- src/config/questions.py
Q1 == Question("Q1", MULTIPLE_CHOICE,
        << PyStr("Everyman", 0, 46, 0), PyStr("Caregiver", 0, 52, 0),
           PyStr("Ruler", 0, 38, 0), PyStr("Creator", 0, 40, 0),
           PyStr("Innocent", 0, 35, 0), PyStr("Sage", 0, 34, 0),
           PyStr("Explorer", 0, 47, 0), PyStr("Outlaw", 0, 46, 0),
           PyStr("Magician", 0, 46, 0), PyStr("Hero", 0, 40, 0),
           PyStr("Lover", 0, 37, 0), PyStr("Jester", 0, 35, 0) >>,
        ValidationRule(TRUE))
Q2 == Question("Q2", CHECKBOXES,
        << PyStr("Rags to Riches", 0, 65, 0), PyStr("Overcoming the Monster", 0, 68, 0),
           PyStr("The Quest", 0, 65, 0), PyStr("Voyage and Return", 0, 72, 0),
           PyStr("Comedy", 0, 66, 0), PyStr("Tragedy", 0, 81, 0),
           PyStr("Rebirth", 0, 64, 0) >>,
        [ValidationRule(TRUE) EXCEPT !.min_selections = Some(1), !.max_selections = Some(2)])
TextQuestion(id, type, min) ==
    Question(id, type, << >>, [ValidationRule(TRUE) EXCEPT !.min_length = Some(min)])
Q3 == TextQuestion("Q3", PARAGRAPH, 100)
Q9 == TextQuestion("Q9", PARAGRAPH, 100)
Q10 == TextQuestion("Q10", PARAGRAPH, 100)
Q13 == TextQuestion("Q13", SHORT_ANSWER, 10)
Q15 == TextQuestion("Q15", PARAGRAPH, 100)
Q16 == TextQuestion("Q16", SHORT_ANSWER, 10)
Q28 == TextQuestion("Q28", PARAGRAPH, 50)
Q29 == TextQuestion("Q29", SHORT_ANSWER, 5)
Q30 == TextQuestion("Q30", SHORT_ANSWER, 5)
Q44 == TextQuestion("Q44", PARAGRAPH, 100)
Q45 == Question("Q45", FILE_UPLOAD, << >>,
        [ValidationRule(TRUE) EXCEPT
           !.allowed_file_types = Some({"image/jpeg", "image/jpg", "image/png", "image/webp"}),
           !.max_file_size_mb = Some(20), !.max_total_size_mb = Some(200),
           !.min_files = Some(5), !.max_files = Some(15)])
Q47 == TextQuestion("Q47", SHORT_ANSWER, 50)

\* The catalog as the source lists it.
Catalog == << Q1, Q2, Q3, Q9, Q10, Q13, Q15, Q16, Q28, Q29, Q30, Q44, Q45, Q47 >>
\* The catalog the model runs: the source's order, keeping one question for each
\* kind of widget (radio, checkboxes, text, file uploader). The questions left
\* out are text questions, which differ from Q13 in min_length and in the
\* field name of one message only.
Modelled == {"Q1", "Q2", "Q13", "Q45"}
QUESTIONS == SelectSeq(Catalog, LAMBDA q : q.id \in Modelled)
N == Len(QUESTIONS)
\* QUESTIONS[i] with Python's 0-based index.
QuestionAt(i) == QUESTIONS[i + 1]
QuestionIds == {QUESTIONS[i].id : i \in 1..N}
\* {q.id: q for q in QUESTIONS}
questions_map == [id \in QuestionIds |-> CHOOSE q \in {QUESTIONS[i] : i \in 1..N} : q.id = id]

\* -------------------------------------------------- src/services/validation.py
InOptions(v, question) == \E i \in 1..Len(question.options) : question.options[i] = v

\* Variant: any string is taken, the membership test is left out.
_validate_multiple_choice_any_string(question, answer_value, validation) ==
    IF answer_value.kind # "str" THEN Reject(Msg("Please select one option.", 0, 0))
    ELSE Accept

_validate_multiple_choice(question, answer_value, validation) ==
    IF answer_value.kind # "str" THEN Reject(Msg("Please select one option.", 0, 0))
    ELSE IF ~InOptions(answer_value, question)
         THEN Reject(Msg("Invalid selection. Please choose from the available options.", 0, 0))
    ELSE Accept

\* Variant: membership is tested first, the selection limits after it.
_validate_checkboxes_membership_first(question, answer_value, validation) ==
    IF answer_value.kind # "list" THEN Reject(Msg("Please select at least one option.", 0, 0))
    ELSE IF \E i \in 1..Len(answer_value.items) : ~InOptions(answer_value.items[i], question)
         THEN Reject(Msg("Invalid selection: '{selection}'", 0, 0))
    ELSE IF ~IsNone(validation.min_selections)
            /\ PyLen(answer_value) < Value(validation.min_selections)
         THEN Reject(Msg("Please select at least {min_selections} option(s).",
                         Value(validation.min_selections), 0))
    ELSE IF ~IsNone(validation.max_selections)
            /\ PyLen(answer_value) > Value(validation.max_selections)
         THEN Reject(Msg("Please select at most {max_selections} option(s).",
                         Value(validation.max_selections), 0))
    ELSE Accept

_validate_checkboxes(question, answer_value, validation) ==
    IF answer_value.kind # "list" THEN Reject(Msg("Please select at least one option.", 0, 0))
    ELSE IF ~IsNone(validation.min_selections)
            /\ PyLen(answer_value) < Value(validation.min_selections)
         THEN Reject(Msg("Please select at least {min_selections} option(s).",
                         Value(validation.min_selections), 0))
    ELSE IF ~IsNone(validation.max_selections)
            /\ PyLen(answer_value) > Value(validation.max_selections)
         THEN Reject(Msg("Please select at most {max_selections} option(s).",
                         Value(validation.max_selections), 0))
    ELSE IF \E i \in 1..Len(answer_value.items) : ~InOptions(answer_value.items[i], question)
         THEN Reject(Msg("Invalid selection: '{selection}'", 0, 0))
    ELSE IF Len(answer_value.files) > 0
         THEN Reject(Msg("Invalid selection: '{selection}'", 0, 0))
    ELSE Accept

\* Variant: the length is taken of the raw value, without strip().
_validate_text_untrimmed(answer_value, validation, field_name) ==
    IF answer_value.kind # "str"
    THEN Reject(Msg("Please provide text for this {field_name}.", 0, 0))
    ELSE IF ~IsNone(validation.min_length) /\ PyLen(answer_value) < Value(validation.min_length)
         THEN Reject(Msg("Please provide at least {min_length} characters. Current length: {len} characters.",
                         Value(validation.min_length), PyLen(answer_value)))
    ELSE IF ~IsNone(validation.max_length) /\ PyLen(answer_value) > Value(validation.max_length)
         THEN Reject(Msg("Please keep your answer under {max_length} characters. Current length: {len} characters.",
                         Value(validation.max_length), PyLen(answer_value)))
    ELSE Accept

_validate_text(answer_value, validation, field_name) ==
    IF answer_value.kind # "str"
    THEN Reject(Msg("Please provide text for this {field_name}.", 0, 0))
    ELSE LET text == PyStrip(answer_value) IN
         IF ~IsNone(validation.min_length) /\ PyLen(text) < Value(validation.min_length)
         THEN Reject(Msg("Please provide at least {min_length} characters. Current length: {len} characters.",
                         Value(validation.min_length), PyLen(text)))
         ELSE IF ~IsNone(validation.max_length) /\ PyLen(text) > Value(validation.max_length)
         THEN Reject(Msg("Please keep your answer under {max_length} characters. Current length: {len} characters.",
                         Value(validation.max_length), PyLen(text)))
         ELSE Accept

\* Variant: the type-specific check runs first, the required check after it.
validate_response_type_first(question, answer_value) ==
    LET validation == question.validation
        typed ==
            IF question.type = MULTIPLE_CHOICE
            THEN _validate_multiple_choice(question, answer_value, validation)
            ELSE IF question.type = CHECKBOXES
            THEN _validate_checkboxes(question, answer_value, validation)
            ELSE IF question.type \in {SHORT_ANSWER, PARAGRAPH}
            THEN _validate_text(answer_value, validation, "text")
            ELSE Accept
    IN  IF ~typed.ok THEN typed
        ELSE IF validation.required /\ IsEmptyValue(answer_value)
        THEN Reject(Msg("This question is required. Please provide an answer.", 0, 0))
        ELSE Accept

validate_response(question, answer_value) ==
    LET validation == question.validation IN
    IF validation.required /\ IsEmptyValue(answer_value)
    THEN Reject(Msg("This question is required. Please provide an answer.", 0, 0))
    ELSE IF ~Truthy(answer_value) /\ ~validation.required THEN Accept
    ELSE IF question.type = MULTIPLE_CHOICE
         THEN _validate_multiple_choice(question, answer_value, validation)
    ELSE IF question.type = CHECKBOXES
         THEN _validate_checkboxes(question, answer_value, validation)
    ELSE IF question.type = SHORT_ANSWER
         THEN _validate_text(answer_value, validation, "short answer")
    ELSE IF question.type = PARAGRAPH
         THEN _validate_text(answer_value, validation, "paragraph")
    ELSE IF question.type = FILE_UPLOAD
         THEN IF validation.required /\ ~Truthy(answer_value)
              THEN Reject(Msg("Please upload at least one file.", 0, 0))
              ELSE Accept
    ELSE Accept

\* An e-mail candidate is a sequence of characters, each standing for a class:
\* "a" a letter, "1" a digit, "_" one of _%+, "-", ".", "@", " " whitespace,
\* "!" any other character.
LocalChars == {"a", "1", ".", "_", "-"}
DomainChars == {"a", "1", ".", "-"}
Letters == {"a"}
Whitespace == {" "}

RECURSIVE LStrip(_)
LStrip(s) == IF Len(s) > 0 /\ Head(s) \in Whitespace THEN LStrip(Tail(s)) ELSE s
RECURSIVE RStrip(_)
RStrip(s) == IF Len(s) > 0 /\ s[Len(s)] \in Whitespace
             THEN RStrip(SubSeq(s, 1, Len(s) - 1)) ELSE s
\* email.strip()
Strip(s) == RStrip(LStrip(s))

\* Variant: a top-level label of a single letter is enough ({1,} for {2,}).
EmailPatternMatchesShortLabel(s) ==
    \E at \in 1..Len(s) : \E dot \in 1..Len(s) :
        /\ s[at] = "@"
        /\ s[dot] = "."
        /\ at >= 2
        /\ dot >= at + 2
        /\ Len(s) - dot >= 1
        /\ \A i \in 1..(at - 1) : s[i] \in LocalChars
        /\ \A i \in (at + 1)..(dot - 1) : s[i] \in DomainChars
        /\ \A i \in (dot + 1)..Len(s) : s[i] \in Letters

\* re.match(r'^[a-zA-Z0-9._%+-]+@[a-zA-Z0-9.-]+\.[a-zA-Z]{2,}$', s)
EmailPatternMatches(s) ==
    \E at \in 1..Len(s) : \E dot \in 1..Len(s) :
        /\ s[at] = "@"
        /\ s[dot] = "."
        /\ at >= 2
        /\ dot >= at + 2
        /\ Len(s) - dot >= 2
        /\ \A i \in 1..(at - 1) : s[i] \in LocalChars
        /\ \A i \in (at + 1)..(dot - 1) : s[i] \in DomainChars
        /\ \A i \in (dot + 1)..Len(s) : s[i] \in Letters

\* candidate: Optional email string.
validate_email(email) ==
    IF IsNone(email) \/ Len(Value(email)) = 0
    THEN Reject(Msg("Please provide an email address.", 0, 0))
    ELSE IF ~EmailPatternMatches(Strip(Value(email)))
         THEN Reject(Msg("Please provide a valid email address (e.g., name@example.com).", 0, 0))
    ELSE Accept

\* ------------------------------------------------------ src/models/response.py
FileReference(original_filename, r2_key, r2_url, file_size_bytes, mime_type) ==
    [original_filename |-> original_filename, r2_key |-> r2_key, r2_url |-> r2_url,
     file_size_bytes |-> file_size_bytes, mime_type |-> mime_type]

\* Variant: the validation_status argument is dropped and the dataclass default
\* (False) is kept.
ResponseDefaultStatus(question_id, answer_value, validation_status, file_references) ==
    [question_id |-> question_id, answer_value |-> answer_value,
     validation_status |-> FALSE, file_references |-> file_references]

Response(question_id, answer_value, validation_status, file_references) ==
    [question_id |-> question_id, answer_value |-> answer_value,
     validation_status |-> validation_status, file_references |-> file_references]

\* Response.to_dict
ResponseToDict(response) ==
    [question_id |-> response.question_id, answer_value |-> response.answer_value,
     validation_status |-> response.validation_status,
     file_references |-> response.file_references]

\* ------------------------------------------------------- src/models/session.py
\* all_responses is a dict: a sequence of Responses in insertion order, one per key.
HasResponse(all_responses, question_id) ==
    \E i \in 1..Len(all_responses) : all_responses[i].question_id = question_id

\* FormSession() followed by __post_init__
FormSession(uuid, clock) ==
    [session_id |-> uuid, current_question_index |-> 0, all_responses |-> << >>,
     completion_status |-> FALSE, user_email |-> None, started_at |-> clock,
     completed_at |-> None,
     r2_folder_path |-> [session_id |-> uuid, timestamp |-> clock]]

\* Variant: all_responses kept as a list that every commit appends to.
add_response_append(session, question_id, response) ==
    [session EXCEPT !.all_responses = Append(session.all_responses, response)]

\* Variant: all_responses is replaced by a dict holding the new response only.
add_response_only_latest(session, question_id, response) ==
    [session EXCEPT !.all_responses = << response >>]

\* Variant: an existing key is deleted and inserted again, so a re-answered
\* question moves to the end of the dict.
add_response_reinserted(session, question_id, response) ==
    [session EXCEPT !.all_responses =
        Append(SelectSeq(session.all_responses, LAMBDA r : r.question_id # question_id),
               response)]

\* Variant: the commit also moves the cursor the session declares.
add_response_moving_cursor(session, question_id, response) ==
    [session EXCEPT !.current_question_index = @ + 1,
                    !.all_responses =
                        IF HasResponse(session.all_responses, question_id)
                        THEN [i \in 1..Len(session.all_responses) |->
                                IF session.all_responses[i].question_id = question_id
                                THEN response ELSE session.all_responses[i]]
                        ELSE Append(session.all_responses, response)]

\* self.all_responses[question_id] = response
add_response(session, question_id, response) ==
    [session EXCEPT !.all_responses =
        IF HasResponse(session.all_responses, question_id)
        THEN [i \in 1..Len(session.all_responses) |->
                IF session.all_responses[i].question_id = question_id
                THEN response ELSE session.all_responses[i]]
        ELSE Append(session.all_responses, response)]

\* self.all_responses.get(question_id): Optional[Response]
get_response(session, question_id) ==
    IF HasResponse(session.all_responses, question_id)
    THEN Some(CHOOSE r \in {session.all_responses[i] : i \in 1..Len(session.all_responses)} :
                 r.question_id = question_id)
    ELSE None

\* Variant: the e-mail is stored stripped, as validate_email sees it.
mark_complete_stripped(session, email, clock) ==
    [session EXCEPT !.completion_status = TRUE, !.user_email = Some(Strip(email)),
                    !.completed_at = Some(clock)]
\* Variant: completed_at is not stamped.
mark_complete_unstamped(session, email, clock) ==
    [session EXCEPT !.completion_status = TRUE, !.user_email = Some(email)]

\* Variant: e-mail and time are stored, completion_status is left as it was.
mark_complete_status_unset(session, email, clock) ==
    [session EXCEPT !.user_email = Some(email), !.completed_at = Some(clock)]

mark_complete(session, email, clock) ==
    [session EXCEPT !.completion_status = TRUE, !.user_email = Some(email),
                    !.completed_at = Some(clock)]

\* Variant: 0 instead of None for a session that is not completed.
completion_time_minutes_or_zero(session) ==
    IF ~IsNone(session.completed_at)
    THEN Some(Value(session.completed_at) - session.started_at)
    ELSE Some(0)

\* Optional[float]; one clock unit is one minute.
completion_time_minutes(session) ==
    IF ~IsNone(session.completed_at)
    THEN Some(Value(session.completed_at) - session.started_at)
    ELSE None

\* to_dict raises KeyError when a response's question_id is not in qmap.
ToDictRaises(session, qmap) ==
    \E i \in 1..Len(session.all_responses) :
        session.all_responses[i].question_id \notin DOMAIN qmap

\* Variant: only the Responses without file references are exported.
to_dict_answers_only(session, qmap) ==
    LET answers == SelectSeq(session.all_responses, LAMBDA r : Len(r.file_references) = 0)
    IN  [questionnaire_version |-> "1.0.0",
         submission_metadata |->
            [session_id |-> session.session_id,
             submitted_at |-> session.completed_at,
             user_email |-> session.user_email,
             completion_time_minutes |-> completion_time_minutes(session),
             started_at |-> session.started_at],
         responses |->
            [i \in 1..Len(answers) |->
                [r |-> ResponseToDict(answers[i]),
                 question_text |-> qmap[answers[i].question_id].text,
                 question_type |-> qmap[answers[i].question_id].type]],
         r2_storage |-> [bucket_name |-> "creative-direction-decks",
                         session_folder |-> session.r2_folder_path]]

to_dict(session, qmap) ==
    [questionnaire_version |-> "1.0.0",
     submission_metadata |->
        [session_id |-> session.session_id,
         submitted_at |-> session.completed_at,
         user_email |-> session.user_email,
         completion_time_minutes |-> completion_time_minutes(session),
         started_at |-> session.started_at],
     responses |->
        [i \in 1..Len(session.all_responses) |->
            [r |-> ResponseToDict(session.all_responses[i]),
             question_text |-> qmap[session.all_responses[i].question_id].text,
             question_type |-> qmap[session.all_responses[i].question_id].type]],
     r2_storage |-> [bucket_name |-> "creative-direction-decks",
                     session_folder |-> session.r2_folder_path]]

\* --------------------------------------------------------- src/utils/export.py
\* export_to_json: the document, or the KeyError of to_dict propagated.
export_to_json(session, qmap) ==
    IF ToDictRaises(session, qmap)
    THEN [raised |-> TRUE, json |-> None]
    ELSE [raised |-> FALSE, json |-> Some(to_dict(session, qmap))]

\* save_json_to_file: disk is what open()/write() do ("ok" or "OSError"). Every
\* Exception of the try block is caught and turned into the return value False;
\* the file is opened only after export_to_json returned.
save_json_to_file(session, qmap, disk) ==
    LET exported == export_to_json(session, qmap)
    IN  IF exported.raised THEN [returned |-> FALSE, file |-> None]
        ELSE IF disk = "ok" THEN [returned |-> TRUE, file |-> exported.json]
        ELSE [returned |-> FALSE, file |-> None]

\* ------------------------------------------------- src/services/r2_storage.py
\* An uploaded file: [stem, ext, size] with size in bytes; its name is stem.ext.
MB == 1024 * 1024
File(stem, ext, size) == [stem |-> stem, ext |-> ext, size |-> size]

\* mimetypes.guess_type(file_name)[0]: Optional MIME type, from the extension.
guess_type(file) ==
    CASE file.ext \in {"jpg", "jpeg"} -> Some("image/jpeg")
      [] file.ext = "png" -> Some("image/png")
      [] file.ext = "webp" -> Some("image/webp")
      [] file.ext = "pdf" -> Some("application/pdf")
      [] OTHER -> None

\* Variant: a file of exactly the size limit is over it (>= for >).
validate_file_upload_exclusive(file, allowed_types, max_file_size_mb) ==
    LET max_bytes == max_file_size_mb * 1024 * 1024
        mime_type == guess_type(file)
    IN  IF file.size >= max_bytes
        THEN Reject(Msg("File '{file_name}' exceeds {max_file_size_mb}MB limit.",
                        file.stem, max_file_size_mb))
        ELSE IF IsNone(mime_type)
        THEN Reject(Msg("Could not determine file type for '{file_name}'.", file.stem, 0))
        ELSE IF Value(mime_type) \notin allowed_types
        THEN Reject(Msg("File type '{mime_type}' not allowed. Allowed types: {allowed_types}",
                        file.stem, 0))
        ELSE Accept

validate_file_upload(file, allowed_types, max_file_size_mb) ==
    LET max_bytes == max_file_size_mb * 1024 * 1024
        mime_type == guess_type(file)
    IN  IF file.size > max_bytes
        THEN Reject(Msg("File '{file_name}' exceeds {max_file_size_mb}MB limit.",
                        file.stem, max_file_size_mb))
        ELSE IF IsNone(mime_type)
        THEN Reject(Msg("Could not determine file type for '{file_name}'.", file.stem, 0))
        ELSE IF Value(mime_type) \notin allowed_types
        THEN Reject(Msg("File type '{mime_type}' not allowed. Allowed types: {allowed_types}",
                        file.stem, 0))
        ELSE Accept

\* Variant: the key is the file's name alone, under no session folder.
R2KeyNoFolder(session_folder, clock, file) ==
    [folder |-> [session_id |-> 0, timestamp |-> 0], stem |-> file.stem, ext |-> file.ext]

\* The key upload_file writes: session_folder/timestamp_filename (the upload's
\* own timestamp, a uniqueness suffix, is left out).
R2Key(session_folder, clock, file) ==
    [folder |-> session_folder, stem |-> file.stem, ext |-> file.ext]

get_public_url(r2_key) == [pub |-> "r2.dev", key |-> r2_key]

\* Variant: success and a key are reported whatever put_object did.
upload_file_reports_success(file, session_folder, clock, put) ==
    [success |-> TRUE, r2_key |-> Some(R2Key(session_folder, clock, file)), error |-> None]

\* upload_file: put is the outcome of client.put_object, one of
\* "ok", "ClientError", "Exception".
upload_file(file, session_folder, clock, put) ==
    IF put = "ok"
    THEN [success |-> TRUE, r2_key |-> Some(R2Key(session_folder, clock, file)), error |-> None]
    ELSE IF put = "ClientError"
    THEN [success |-> FALSE, r2_key |-> None, error |-> Some(Msg("Upload failed: {e}", file.stem, 0))]
    ELSE [success |-> FALSE, r2_key |-> None,
          error |-> Some(Msg("Unexpected error during upload: {e}", file.stem, 0))]

RECURSIVE SumSizes(_)
SumSizes(files) == IF Len(files) = 0 THEN 0 ELSE Head(files).size + SumSizes(Tail(files))

\* Variant of the loop below: a failed put_object is tried once more before the
\* error is recorded.
RECURSIVE UploadLoopRetrying(_, _, _, _, _, _, _)
UploadLoopRetrying(files, i, session_folder, rules, clock, puts, acc) ==
    LET one(file, check, up) ==
            IF ~check.ok THEN [acc EXCEPT !.errors = Append(@, Value(check.error))]
            ELSE IF ~up.success
            THEN [acc EXCEPT !.put_calls = Append(Append(@, file.stem), file.stem),
                             !.errors = Append(@, Value(up.error))]
            ELSE [acc EXCEPT
                    !.written = @ \cup {Value(up.r2_key)},
                    !.put_calls = Append(@, file.stem),
                    !.uploaded_files = Append(@,
                        [r2_key |-> Value(up.r2_key),
                         r2_url |-> get_public_url(Value(up.r2_key)),
                         file_name |-> [stem |-> file.stem, ext |-> file.ext],
                         file_size_bytes |-> file.size,
                         mime_type |-> Value(guess_type(file))])]
    IN  IF i > Len(files) THEN acc
        ELSE UploadLoopRetrying(files, i + 1, session_folder, rules, clock, puts,
                                one(files[i],
                                    validate_file_upload(files[i], rules.allowed_types,
                                                         rules.max_file_size_mb),
                                    upload_file(files[i], session_folder, clock, puts[i])))

\* The per-file loop of batch_upload_files from file i on; acc is
\* [uploaded_files, errors, written, put_calls] so far (written: the keys
\* put_object has stored in the bucket, which is the case when upload_file was
\* called and put_object returned; put_calls: the files put_object was called
\* for, one entry a call).
RECURSIVE UploadLoop(_, _, _, _, _, _, _)
UploadLoop(files, i, session_folder, rules, clock, puts, acc) ==
    LET stored(file, put) ==
            IF put = "ok" THEN acc.written \cup {R2Key(session_folder, clock, file)}
            ELSE acc.written
        one(file, check, up, put) ==
            IF ~check.ok THEN [acc EXCEPT !.errors = Append(@, Value(check.error))]
            ELSE IF ~up.success
            THEN [acc EXCEPT !.written = stored(file, put),
                             !.put_calls = Append(@, file.stem),
                             !.errors = Append(@, Value(up.error))]
            ELSE [acc EXCEPT
                    !.written = stored(file, put),
                    !.put_calls = Append(@, file.stem),
                    !.uploaded_files = Append(@,
                        [r2_key |-> Value(up.r2_key),
                         r2_url |-> get_public_url(Value(up.r2_key)),
                         file_name |-> [stem |-> file.stem, ext |-> file.ext],
                         file_size_bytes |-> file.size,
                         mime_type |-> Value(guess_type(file))])]
    IN  IF i > Len(files) THEN acc
        ELSE UploadLoop(files, i + 1, session_folder, rules, clock, puts,
                        one(files[i],
                            validate_file_upload(files[i], rules.allowed_types,
                                                 rules.max_file_size_mb),
                            upload_file(files[i], session_folder, clock, puts[i]),
                            puts[i]))

\* batch_upload_files(files, session_folder, validation_rules); puts[i] is the
\* outcome put_object would have for file i.
batch_upload_files(files, session_folder, rules, clock, puts) ==
    LET empty == [uploaded_files |-> << >>, errors |-> << >>, written |-> {},
                  put_calls |-> << >>]
        total_size_bytes == SumSizes(files)
        max_total_bytes == rules.max_total_size_mb * 1024 * 1024
    IN  IF Len(files) < rules.min_files
        THEN [empty EXCEPT !.errors =
                << Msg("Please upload at least {min_files} file(s). Currently: {len} file(s).",
                       rules.min_files, Len(files)) >>]
        ELSE IF Len(files) > rules.max_files
        THEN [empty EXCEPT !.errors =
                << Msg("Please upload at most {max_files} file(s). Currently: {len} file(s).",
                       rules.max_files, Len(files)) >>]
        ELSE IF total_size_bytes > max_total_bytes
        THEN [empty EXCEPT !.errors =
                << Msg("Total upload size exceeds {max_total_size_mb}MB limit. Current total: {total}MB",
                       rules.max_total_size_mb, total_size_bytes) >>]
        ELSE UploadLoop(files, 1, session_folder, rules, clock, puts, empty)

\* --------------------------------------------- src/services/email_delivery.py
\* EmailDeliveryService(**yagmail_params, **smtp_params): which transports have
\* credentials.
EmailDeliveryService(yagmail_configured, smtp_configured) ==
    [yagmail |-> yagmail_configured, smtp |-> smtp_configured]

\* _send_via_yagmail / _send_via_smtp: outcome is "ok" or the text of the
\* exception the transport raised, which is caught and returned as the error.
_send_via_yagmail(outcome) ==
    IF outcome = "ok" THEN [success |-> TRUE, error |-> None]
    ELSE [success |-> FALSE, error |-> Some(Msg("Yagmail error: {e}", outcome, 0))]
_send_via_smtp(outcome) ==
    IF outcome = "ok" THEN [success |-> TRUE, error |-> None]
    ELSE [success |-> FALSE, error |-> Some(Msg("SMTP error: {e}", outcome, 0))]

\* Variant: when the fallback fails too, the error reported is the primary's.
send_questionnaire_completion_email_first_error(service, yagmail, smtp) ==
    LET tried_yagmail == IF service.yagmail THEN << "yagmail" >> ELSE << >>
        first == _send_via_yagmail(yagmail)
        second == _send_via_smtp(smtp)
    IN  IF service.yagmail /\ first.success
        THEN [success |-> TRUE, error |-> None, attempts |-> tried_yagmail]
        ELSE IF service.smtp
        THEN IF second.success
             THEN [success |-> TRUE, error |-> None, attempts |-> Append(tried_yagmail, "smtp")]
             ELSE [success |-> FALSE,
                   error |-> Some(Msg("Both Yagmail and SMTP failed. Last error: {error}",
                                      IF service.yagmail THEN Value(first.error)
                                      ELSE Value(second.error), 0)),
                   attempts |-> Append(tried_yagmail, "smtp")]
        ELSE [success |-> FALSE,
              error |-> Some(Msg("No email service configured. Please configure Yagmail or SMTP.", 0, 0)),
              attempts |-> tried_yagmail]

\* send_questionnaire_completion_email; yagmail / smtp are the outcomes the two
\* transports would have. attempts lists the transports tried, in order.
send_questionnaire_completion_email(service, yagmail, smtp) ==
    LET tried_yagmail == IF service.yagmail THEN << "yagmail" >> ELSE << >>
        first == _send_via_yagmail(yagmail)
        second == _send_via_smtp(smtp)
    IN  IF service.yagmail /\ first.success
        THEN [success |-> TRUE, error |-> None, attempts |-> tried_yagmail]
        ELSE IF service.smtp
        THEN IF second.success
             THEN [success |-> TRUE, error |-> None, attempts |-> Append(tried_yagmail, "smtp")]
             ELSE [success |-> FALSE,
                   error |-> Some(Msg("Both Yagmail and SMTP failed. Last error: {error}",
                                      Value(second.error), 0)),
                   attempts |-> Append(tried_yagmail, "smtp")]
        ELSE [success |-> FALSE,
              error |-> Some(Msg("No email service configured. Please configure Yagmail or SMTP.", 0, 0)),
              attempts |-> tried_yagmail]

\* ------------------------------------------------------------------ src/app.py
VARIABLES
    current_step,            \* st.session_state.current_step
    current_question_index,  \* st.session_state.current_question_index (the live cursor)
    validation_error,        \* st.session_state.validation_error: Optional[lines]
    form_session,            \* st.session_state.form_session
    input,                   \* the widget of the rendered question: st.session_state["input_<id>"],
                             \* or the checked ones of its checkbox_<id>_<option> keys
    checkbox_selections,     \* st.session_state["checkbox_selections_<id>"], per checkbox question
    email_input,             \* st.session_state["email_input"] ("" when absent)
    completion_json,         \* st.session_state.completion_json: Optional[document]
    completion_email,        \* st.session_state.completion_email: Optional[str]
    delivery,                \* what the last submit did about the e-mail (transports tried, notice shown)
    now,                     \* the latest reading of the wall clock, datetime.now(UTC)
    uuids,                   \* how many uuid4() values have been drawn
    last,                    \* history: the last callback run, where it started, what it read
    accepted_log,            \* history: per question, the last answer an advance accepted
    scenario,                \* history: progress along the straight-through run (see ScenarioStep)
    probe                    \* a (question, answer) pair handed to the validator on its own

vars == << current_step, current_question_index, validation_error, form_session, input,
           checkbox_selections, email_input, completion_json, completion_email, delivery,
           now, uuids, last, accepted_log, scenario, probe >>

\* A one-line message as the value of validation_error.
Line(m) == Some(<< m >>)

CheckboxIds == {QUESTIONS[i].id : i \in {j \in 1..N : QUESTIONS[j].type = CHECKBOXES}}

\* [option for option in options if option in selections], options from i on.
RECURSIVE SelectedFrom(_, _, _)
SelectedFrom(options, i, selections) ==
    IF i > Len(options) THEN << >>
    ELSE IF \E k \in 1..Len(selections) : selections[k] = options[i]
         THEN << options[i] >> \o SelectedFrom(options, i + 1, selections)
         ELSE SelectedFrom(options, i + 1, selections)

\* Variant of the checkbox branch below: the buffer is filled when it is absent
\* and not written again after the loop.
render_checkboxes_buffer_kept(question, default_value, cbsel, boxes) ==
    LET buffer == IF ~IsNone(cbsel[question.id]) THEN Value(cbsel[question.id])
                  ELSE IF Truthy(default_value) THEN default_value.items ELSE << >>
        selected == SelectedFrom(question.options, 1,
                                 IF IsNone(boxes) THEN buffer ELSE Value(boxes))
    IN  [input |-> Some(PyList(selected)),
         checkbox_selections |-> [cbsel EXCEPT ![question.id] = Some(buffer)]]

\* The checkbox branch of render_question. boxes: the options whose widget
\* checkbox_<id>_<option> is checked, None when the widgets are new (st.checkbox
\* then returns value=is_checked, taken from the buffer). The buffer
\* checkbox_selections_<id> is set to default_value or [] when absent and to
\* selected after the loop; input holds what the checkbox widgets show.
render_checkboxes(question, default_value, cbsel, boxes) ==
    LET buffer == IF ~IsNone(cbsel[question.id]) THEN Value(cbsel[question.id])
                  ELSE IF Truthy(default_value) THEN default_value.items ELSE << >>
        selected == SelectedFrom(question.options, 1,
                                 IF IsNone(boxes) THEN buffer ELSE Value(boxes))
    IN  [input |-> Some(PyList(selected)),
         checkbox_selections |-> [cbsel EXCEPT ![question.id] = Some(selected)]]

\* render_question: what the widget keys hold after the run. cbsel is
\* checkbox_selections before the run; boxes is the state of the checkbox
\* widgets of the page (None on a page whose widgets are new).
render_question(question, session, cbsel, boxes) ==
    LET previous_response == get_response(session, question.id)
        has_default == ~IsNone(previous_response)
        default_value == IF has_default THEN Value(previous_response).answer_value ELSE PyNone
    IN  IF question.type = MULTIPLE_CHOICE
        THEN [input |-> Some(IF InOptions(default_value, question) THEN default_value
                             ELSE question.options[1]),
              checkbox_selections |-> cbsel]
        ELSE IF question.type = CHECKBOXES
        THEN render_checkboxes(question, default_value, cbsel, boxes)
        ELSE IF question.type \in {SHORT_ANSWER, PARAGRAPH}
        THEN [input |-> Some(IF Truthy(default_value) THEN default_value ELSE EmptyStr),
              checkbox_selections |-> cbsel]
        ELSE [input |-> Some(PyFiles(<< >>)), checkbox_selections |-> cbsel]

\* main() after a callback: the page shown for (step, index) and the widget
\* state it leaves. Widgets of a page that is shown again keep their values;
\* the keys of widgets no longer shown are dropped.
main(step, index, session, same_page, old) ==
    IF step = "welcome" \/ index > N
    THEN [input |-> None, checkbox_selections |-> old.checkbox_selections, email_input |-> << >>]
    ELSE IF index = N
    THEN [input |-> None, checkbox_selections |-> old.checkbox_selections,
          email_input |-> IF same_page THEN old.email_input ELSE << >>]
    ELSE IF same_page
    THEN [input |-> old.input, checkbox_selections |-> old.checkbox_selections,
          email_input |-> << >>]
    ELSE LET r == render_question(QuestionAt(index), session, old.checkbox_selections, None)
         IN  [input |-> r.input, checkbox_selections |-> r.checkbox_selections,
              email_input |-> << >>]

Widgets == [input |-> input, checkbox_selections |-> checkbox_selections,
            email_input |-> email_input]

\* Which button carrying a callback main() renders.
NextRendered == current_step = "questions" /\ current_question_index < N
\* Variant: the Back button is also drawn on the completion page.
BackRenderedPastEnd == current_step = "questions" /\ current_question_index > 0
BackRendered == current_step = "questions" /\ current_question_index > 0
                /\ current_question_index <= N
SubmitRendered == current_step = "questions" /\ current_question_index = N
StartRendered == current_step = "welcome"
StartNewRendered == current_step = "questions" /\ current_question_index > N

\* Known validation error prefixes of handle_file_upload: error.startswith(prefix).
validation_error_prefixes ==
    { "Please upload at least", "Please upload at most", "Total upload size exceeds",
      "File '", "Could not determine file type", "File type '" }
\* The leading literal text of each message batch_upload_files can return.
LeadingText(m) ==
    CASE m.code = "Please upload at least {min_files} file(s). Currently: {len} file(s)."
            -> "Please upload at least"
      [] m.code = "Please upload at most {max_files} file(s). Currently: {len} file(s)."
            -> "Please upload at most"
      [] m.code = "Total upload size exceeds {max_total_size_mb}MB limit. Current total: {total}MB"
            -> "Total upload size exceeds"
      [] m.code = "File '{file_name}' exceeds {max_file_size_mb}MB limit." -> "File '"
      [] m.code = "Could not determine file type for '{file_name}'."
            -> "Could not determine file type"
      [] m.code = "File type '{mime_type}' not allowed. Allowed types: {allowed_types}"
            -> "File type '"
      [] m.code = "Upload failed: {e}" -> "Upload failed: "
      [] OTHER -> "Unexpected error during upload: "
\* Variant: every error counts as a validation error.
is_validation_error_always(m) == LeadingText(m) = LeadingText(m)
is_validation_error(m) == LeadingText(m) \in validation_error_prefixes

GenericUploadError ==
    Msg("Unable to upload files at this time. Please try again later or contact support if the problem persists.", 0, 0)

\* Variant: the errors of batch_upload_files are ignored and whatever was
\* uploaded is turned into FileReferences.
handle_file_upload_ignoring_errors(uploaded_files, question_id, session, r2, clock, puts) ==
    LET validation == (CHOOSE q \in {QUESTIONS[i] : i \in 1..N} : q.id = question_id).validation
        batch == batch_upload_files(
                    uploaded_files.files, session.r2_folder_path,
                    [allowed_types |-> Value(validation.allowed_file_types),
                     max_file_size_mb |-> Value(validation.max_file_size_mb),
                     max_total_size_mb |-> Value(validation.max_total_size_mb),
                     min_files |-> Value(validation.min_files),
                     max_files |-> Value(validation.max_files)],
                    clock, puts)
    IN  [ok |-> TRUE,
         file_references |->
            [i \in 1..Len(batch.uploaded_files) |->
               FileReference(batch.uploaded_files[i].file_name,
                             batch.uploaded_files[i].r2_key,
                             batch.uploaded_files[i].r2_url,
                             batch.uploaded_files[i].file_size_bytes,
                             batch.uploaded_files[i].mime_type)],
         error |-> None, written |-> batch.written, errors |-> batch.errors,
         put_calls |-> batch.put_calls]

\* handle_file_upload(uploaded_files, question_id). r2 is the environment of the
\* storage call: "ok", "KeyError" (get_r2_config raises) or "Exception" (anything
\* raised inside the try block); puts[i] is put_object's outcome for file i.
handle_file_upload(uploaded_files, question_id, session, r2, clock, puts) ==
    LET fail(m, written, errors) ==
            [ok |-> FALSE, file_references |-> << >>, error |-> m,
             written |-> written, errors |-> errors, put_calls |-> << >>]
        rules_of(validation) ==
            [allowed_types |-> Value(validation.allowed_file_types),
             max_file_size_mb |-> Value(validation.max_file_size_mb),
             max_total_size_mb |-> Value(validation.max_total_size_mb),
             min_files |-> Value(validation.min_files),
             max_files |-> Value(validation.max_files)]
        after(batch) ==
            IF Len(batch.errors) > 0
               /\ \E i \in 1..Len(batch.errors) : ~is_validation_error(batch.errors[i])
            THEN [fail(Line(GenericUploadError), batch.written, batch.errors)
                    EXCEPT !.put_calls = batch.put_calls]
            ELSE IF Len(batch.errors) > 0
            THEN [fail(Some(batch.errors), batch.written, batch.errors)
                    EXCEPT !.put_calls = batch.put_calls]
            ELSE [ok |-> TRUE,
                  file_references |->
                     [i \in 1..Len(batch.uploaded_files) |->
                        FileReference(batch.uploaded_files[i].file_name,
                                      batch.uploaded_files[i].r2_key,
                                      batch.uploaded_files[i].r2_url,
                                      batch.uploaded_files[i].file_size_bytes,
                                      batch.uploaded_files[i].mime_type)],
                  error |-> None, written |-> batch.written, errors |-> batch.errors,
         put_calls |-> batch.put_calls]
    IN  IF ~Truthy(uploaded_files) THEN fail(Line(Msg("No files provided", 0, 0)), {}, << >>)
        ELSE IF r2 = "KeyError"
        THEN fail(Line(Msg("File storage is not configured. Please contact support.", 0, 0)),
                  {}, << >>)
        ELSE IF r2 = "Exception" THEN fail(Line(GenericUploadError), {}, << >>)
        ELSE after(batch_upload_files(
                      uploaded_files.files, session.r2_folder_path,
                      rules_of((CHOOSE q \in {QUESTIONS[i] : i \in 1..N} :
                                   q.id = question_id).validation),
                      clock, puts))

\* st.session_state.get("checkbox_selections_<id>", []) / st.session_state.get("input_<id>")
PendingAnswer(question, widgets) ==
    IF question.type = CHECKBOXES
    THEN IF IsNone(widgets.checkbox_selections[question.id]) THEN PyList(<< >>)
         ELSE PyList(Value(widgets.checkbox_selections[question.id]))
    ELSE IF IsNone(widgets.input) THEN PyNone ELSE Value(widgets.input)

\* f"{len(file_refs)} files uploaded"
FilesUploadedText(n) ==
    PyStr(ToString(n) \o " files uploaded", 0, (IF n < 10 THEN 1 ELSE 2) + 15, 0)

\* advance_to_next_question() past its guard: what the callback leaves in the
\* session store. old = [current_question_index, validation_error, form_session];
\* env = [r2, clock, puts].
advance_body(old, widgets, env) ==
    LET unchanged == [current_question_index |-> old.current_question_index,
                      validation_error |-> old.validation_error,
                      form_session |-> old.form_session, written |-> {}, errors |-> << >>,
          put_calls |-> << >>]
        commit(response, written) ==
            [current_question_index |-> old.current_question_index + 1,
             validation_error |-> None,
             form_session |-> add_response(old.form_session, response.question_id, response),
             written |-> written, errors |-> << >>, put_calls |-> << >>]
        files(question, upload) ==
            IF ~upload.ok
            THEN [unchanged EXCEPT !.validation_error = upload.error,
                                   !.written = upload.written,
                                   !.errors = upload.errors,
                                   !.put_calls = upload.put_calls]
            ELSE [commit(Response(question.id,
                                  FilesUploadedText(Len(upload.file_references)),
                                  TRUE, upload.file_references),
                         upload.written)
                    EXCEPT !.put_calls = upload.put_calls]
        standard(question, answer, checked) ==
            IF ~checked.ok
            THEN [unchanged EXCEPT !.validation_error = Line(Value(checked.error))]
            ELSE commit(Response(question.id, answer, TRUE, << >>), {})
        with(question, answer) ==
            IF question.type = FILE_UPLOAD
            THEN IF ~Truthy(answer)
                 THEN [unchanged EXCEPT !.validation_error =
                          Line(Msg("Please upload at least 5 images.", 0, 0))]
                 ELSE files(question,
                            handle_file_upload(answer, question.id, old.form_session,
                                               env.r2, env.clock, env.puts))
            ELSE standard(question, answer, validate_response(question, answer))
        at(question) == with(question, PendingAnswer(question, widgets))
    IN  at(QuestionAt(old.current_question_index))

\* Variant: a rejected answer is still recorded, with validation_status False.
advance_recording_rejected(old, widgets, env) ==
    LET new == advance_body(old, widgets, env)
        question == QuestionAt(old.current_question_index)
        answer == PendingAnswer(question, widgets)
    IN  IF new.current_question_index = old.current_question_index
        THEN [new EXCEPT !.form_session =
                 add_response(old.form_session, question.id,
                              Response(question.id, answer, FALSE, << >>))]
        ELSE new
\* Variant: a question that already holds a valid Response is passed without
\* looking at the pending answer.
advance_trusting_stored(old, widgets, env) ==
    LET question == QuestionAt(old.current_question_index)
        stored == get_response(old.form_session, question.id)
    IN  IF ~IsNone(stored) /\ Value(stored).validation_status
        THEN [current_question_index |-> old.current_question_index + 1,
              validation_error |-> None,
              form_session |-> old.form_session, written |-> {}, errors |-> << >>,
          put_calls |-> << >>]
        ELSE advance_body(old, widgets, env)

\* Variant: while an error message is on display the callback returns at once.
advance_blocked_by_error(old, widgets, env) ==
    IF old.current_question_index >= N \/ ~IsNone(old.validation_error)
    THEN [current_question_index |-> old.current_question_index,
          validation_error |-> old.validation_error,
          form_session |-> old.form_session, written |-> {}, errors |-> << >>,
          put_calls |-> << >>]
    ELSE advance_body(old, widgets, env)

\* advance_to_next_question()
advance_to_next_question(old, widgets, env) ==
    IF old.current_question_index >= N
    THEN [current_question_index |-> old.current_question_index,
          validation_error |-> old.validation_error,
          form_session |-> old.form_session, written |-> {}, errors |-> << >>,
          put_calls |-> << >>]
    ELSE advance_body(old, widgets, env)

\* Variant: the cursor is decremented without the "> 0" test.
go_back_unguarded(old) ==
    [old EXCEPT !.current_question_index = @ - 1, !.validation_error = None]

\* Variant: the cursor is decremented and the error message left in place.
go_back_keeping_error(old) ==
    IF old.current_question_index > 0
    THEN [old EXCEPT !.current_question_index = @ - 1]
    ELSE old

\* go_back_to_previous_question()
go_back_to_previous_question(old) ==
    IF old.current_question_index > 0
    THEN [old EXCEPT !.current_question_index = @ - 1, !.validation_error = None]
    ELSE old

\* Variant of the e-mail step below: no catch-all handler, so an unexpected
\* exception leaves the callback.
send_completion_email_uncaught(mail) ==
    [propagated |-> mail.raised = "Exception", attempts |-> << >>, notice |-> ""]

\* The try block of submit_questionnaire that sends the e-mail. mail is its
\* environment: which transports are configured, how each would fare, and whether
\* something is raised inside the block ("KeyError": the configuration is
\* missing; "Exception": anything else). propagated: whether an exception leaves
\* the block; notice: the warning shown on the completion page.
send_completion_email(mail) ==
    LET service == EmailDeliveryService(mail.yagmail_configured, mail.smtp_configured)
        sent == send_questionnaire_completion_email(
                    service, IF mail.yagmail_ok THEN "ok" ELSE "error",
                    IF mail.smtp_ok THEN "ok" ELSE "error")
    IN  IF mail.raised = "KeyError"
        THEN [propagated |-> FALSE, attempts |-> << >>, notice |-> "Email is not configured."]
        ELSE IF mail.raised = "Exception"
        THEN [propagated |-> FALSE, attempts |-> << >>,
              notice |-> "Unable to send email at this time."]
        ELSE IF ~sent.success
        THEN [propagated |-> FALSE, attempts |-> sent.attempts,
              notice |-> "Email delivery is temporarily unavailable."]
        ELSE [propagated |-> FALSE, attempts |-> sent.attempts, notice |-> ""]

\* submit_questionnaire(). old = [current_question_index, validation_error,
\* form_session, completion_json, completion_email].
submit_questionnaire(old, widgets, clock, mail) ==
    LET email == widgets.email_input
        rejected(checked) ==
            [current_question_index |-> old.current_question_index,
             validation_error |-> Line(Value(checked.error)),
             form_session |-> old.form_session,
             completion_json |-> old.completion_json,
             completion_email |-> old.completion_email,
             delivery |-> None]
        raised(completed) ==
            [current_question_index |-> old.current_question_index,
             validation_error |-> old.validation_error,
             form_session |-> completed,
             completion_json |-> old.completion_json,
             completion_email |-> old.completion_email,
             delivery |-> None]
        finish(completed, exported, report) ==
            IF exported.raised \/ report.propagated
            THEN raised(completed)
            ELSE [current_question_index |-> old.current_question_index + 1,
                  validation_error |-> None,
                  form_session |-> completed,
                  completion_json |-> exported.json,
                  completion_email |-> Some(email),
                  delivery |-> Some([attempts |-> report.attempts,
                                     notice |-> report.notice])]
        complete(completed) ==
            finish(completed, export_to_json(completed, questions_map),
                   send_completion_email(mail))
        after(checked) ==
            IF ~checked.ok THEN rejected(checked)
            ELSE complete(mark_complete(old.form_session, email, clock))
    IN  after(validate_email(Some(email)))

\* ---------------------------------------------------------------- the inputs
\* What the respondent can type into the text widget of a question: nothing,
\* blanks only, one character too few padded with blanks, and the minimum length
\* padded with blanks.
TextInputs(question) ==
    LET min == Value(question.validation.min_length) IN
    { EmptyStr, PyStr("", 1, 0, 1), PyStr("t", 1, min - 1, 1), PyStr("t", 1, min, 1) }

\* The options (by position) the respondent picks among on a radio question and
\* toggles on a checkbox question.
RadioPicks == {1, 2}
CheckboxToggles == {1, 2, 3}

Batch(n, ext, mb) == [i \in 1..n |-> File(i, ext, mb * MB)]
\* What the respondent can drop into the uploader: nothing, too few files, the
\* minimum, the minimum with one file over the per-file cap, too many files.
FileInputs ==
    { << >>, Batch(4, "jpg", 1), Batch(5, "png", 1),
      [Batch(5, "jpg", 1) EXCEPT ![2] = File(2, "jpg", 21 * MB)],
      Batch(16, "webp", 1) }

\* put_object outcomes for a batch of n files: all succeed, the first or the last
\* fails with a ClientError, all raise.
PutOutcomes(n) ==
    { [i \in 1..n |-> "ok"],
      [i \in 1..n |-> IF i = 1 THEN "ClientError" ELSE "ok"],
      [i \in 1..n |-> IF i = n THEN "ClientError" ELSE "ok"],
      [i \in 1..n |-> "Exception"] }
StorageOutcomes(n) ==
    { [r2 |-> "ok", puts |-> p] : p \in PutOutcomes(n) }
    \cup { [r2 |-> r, puts |-> [i \in 1..n |-> "ok"]] : r \in {"KeyError", "Exception"} }

\* What the respondent can type into the e-mail field.
EmailInputs ==
    { << >>, << "a", "a", "a" >>, << "a", "@", "a", ".", "a" >>,
      << "a", "@", "a", ".", "a", "a" >>,
      << " ", "a", "1", "@", "a", ".", "a", "a", " " >> }

Mail(yagmail_configured, yagmail_ok, smtp_configured, smtp_ok, raised) ==
    [yagmail_configured |-> yagmail_configured, yagmail_ok |-> yagmail_ok,
     smtp_configured |-> smtp_configured, smtp_ok |-> smtp_ok, raised |-> raised]
\* The e-mail step's environment: primary succeeds; primary fails and the fallback
\* succeeds / fails / is not configured; only the fallback is configured and
\* succeeds / fails; nothing is configured; something is raised while sending.
MailOutcomes ==
    { Mail(TRUE, TRUE, TRUE, TRUE, "none"), Mail(TRUE, FALSE, TRUE, TRUE, "none"),
      Mail(TRUE, FALSE, TRUE, FALSE, "none"), Mail(TRUE, FALSE, FALSE, FALSE, "none"),
      Mail(FALSE, FALSE, TRUE, TRUE, "none"), Mail(FALSE, FALSE, TRUE, FALSE, "none"),
      Mail(FALSE, FALSE, FALSE, FALSE, "none"),
      Mail(TRUE, TRUE, TRUE, TRUE, "KeyError"), Mail(TRUE, TRUE, TRUE, TRUE, "Exception") }

\* ----------------------------------------------------------------- the actions
\* op: the callback; from: the cursor it started at; moved: how far it moved the
\* cursor; accepted: whether the answer (or e-mail) it read passes its check;
\* email: the e-mail a submit read; replaced: whether an accepted answer took the
\* place of a different answer accepted earlier for the same question; written:
\* the keys put_object stored during the callback; errors: the error list
\* batch_upload_files returned to it; storage: how the storage call made by the
\* callback went ("none" when it made none); put_calls: the files the callback
\* had put_object called for, one entry a call.
History(op, moved, accepted, email) ==
    [op |-> op, from |-> current_question_index, moved |-> moved,
     accepted |-> accepted, email |-> email, replaced |-> FALSE, written |-> {},
     errors |-> << >>, storage |-> "none",
     put_calls |-> << >>]

Store == [current_question_index |-> current_question_index,
          validation_error |-> validation_error,
          form_session |-> form_session,
          completion_json |-> completion_json,
          completion_email |-> completion_email]

\* Whether the answer pending at the cursor passes the check advance applies to
\* it, given the storage environment (r2, puts) of the step.
PendingAccepted(r2, puts) ==
    LET question == QuestionAt(current_question_index)
        answer == PendingAnswer(question, Widgets)
    IN  IF question.type = FILE_UPLOAD
        THEN /\ Truthy(answer)
             /\ handle_file_upload(answer, question.id, form_session, r2, now, puts).ok
        ELSE validate_response(question, answer).ok

\* The straight-through run: scenario = k (0..N) after k accepted advances in a
\* row on a fresh session, N+1 after an e-mail rejected at the e-mail step that
\* follows, N+2 after the e-mail accepted next; -1 once the run has left that script.
ScenarioAfterAdvance(accepted) ==
    IF scenario \in 0..(N - 1) /\ accepted THEN scenario + 1 ELSE -1
ScenarioAfterSubmit(accepted) ==
    IF scenario = N /\ ~accepted THEN N + 1
    ELSE IF scenario = N + 1 /\ accepted THEN N + 2
    ELSE -1

NoProbe == None

\* initialize_session() on a store holding none of its keys.
Fresh(uuid, clock) ==
    /\ current_step' = "welcome"
    /\ current_question_index' = 0
    /\ validation_error' = None
    /\ form_session' = FormSession(uuid, clock)
    /\ input' = None
    /\ checkbox_selections' = [id \in CheckboxIds |-> None]
    /\ email_input' = << >>
    /\ completion_json' = None
    /\ completion_email' = None
    /\ delivery' = None
    /\ accepted_log' = [id \in QuestionIds |-> None]
    /\ scenario' = 0

Init ==
    /\ current_step = "welcome"
    /\ current_question_index = 0
    /\ validation_error = None
    /\ form_session = FormSession(1, 0)
    /\ input = None
    /\ checkbox_selections = [id \in CheckboxIds |-> None]
    /\ email_input = << >>
    /\ completion_json = None
    /\ completion_email = None
    /\ delivery = None
    /\ now = 0
    /\ uuids = 1
    /\ last = [op |-> "init", from |-> 0, moved |-> 0, accepted |-> FALSE, email |-> << >>,
               replaced |-> FALSE, written |-> {}, errors |-> << >>, storage |-> "none",
     put_calls |-> << >>]
    /\ accepted_log = [id \in QuestionIds |-> None]
    /\ scenario = 0
    /\ probe = NoProbe

\* "Start" on the welcome screen: start_questionnaire(), then the first question is rendered.
Start ==
    /\ StartRendered
    /\ current_step' = "questions"
    /\ LET show(w) == /\ input' = w.input
                       /\ checkbox_selections' = w.checkbox_selections
                       /\ email_input' = w.email_input
       IN  show(main("questions", current_question_index, form_session, FALSE, Widgets))
    /\ last' = History("start", 0, FALSE, << >>)
    /\ UNCHANGED << current_question_index, validation_error, form_session,
                    completion_json, completion_email, delivery, now, uuids,
                    accepted_log, scenario, probe >>

\* The respondent changes the widget of the question shown; a click on a checkbox
\* flips that widget, the script reruns and render_question stores the checkbox
\* selections it reads back from the widgets.
EditAnswer ==
    /\ NextRendered
    /\ LET question == QuestionAt(current_question_index) IN
       \/ /\ question.type = MULTIPLE_CHOICE
          /\ \E k \in RadioPicks : input' = Some(question.options[k])
          /\ UNCHANGED checkbox_selections
       \/ /\ question.type = CHECKBOXES
          /\ \E k \in CheckboxToggles :
                LET boxes == Value(input).items
                    option == question.options[k]
                    checked == \E j \in 1..Len(boxes) : boxes[j] = option
                    toggled == IF checked
                               THEN SelectSeq(boxes, LAMBDA o : o # option)
                               ELSE Append(boxes, option)
                IN  \E shown \in {render_question(question, form_session,
                                                  checkbox_selections, Some(toggled))} :
                       /\ input' = shown.input
                       /\ checkbox_selections' = shown.checkbox_selections
       \/ /\ question.type \in {SHORT_ANSWER, PARAGRAPH}
          /\ \E t \in TextInputs(question) : input' = Some(t)
          /\ UNCHANGED checkbox_selections
       \/ /\ question.type = FILE_UPLOAD
          /\ \E f \in FileInputs : input' = Some(PyFiles(f))
          /\ UNCHANGED checkbox_selections
    /\ UNCHANGED << current_step, current_question_index, validation_error, form_session,
                    email_input, completion_json, completion_email, delivery, now, uuids,
                    last, accepted_log, scenario, probe >>

\* The respondent types into the e-mail field.
EditEmail ==
    /\ SubmitRendered
    /\ \E e \in EmailInputs : email_input' = e
    /\ UNCHANGED << current_step, current_question_index, validation_error, form_session,
                    input, checkbox_selections, completion_json, completion_email,
                    delivery, now, uuids, last, accepted_log, scenario, probe >>

\* The rerun of main() after a callback left the cursor at index.
Rerun(index, session) ==
    LET show(w) == /\ input' = w.input
                   /\ checkbox_selections' = w.checkbox_selections
                   /\ email_input' = w.email_input
    IN  show(main(current_step, index, session, index = current_question_index, Widgets))

\* "Next": advance_to_next_question(), then the rerun of main().
ClickNext ==
    /\ NextRendered
    /\ \E question \in {QuestionAt(current_question_index)} :
       \E answer \in {PendingAnswer(question, Widgets)} :
       \E storage \in StorageOutcomes(IF question.type = FILE_UPLOAD
                                      THEN Len(answer.files) ELSE 0) :
       \E new \in {advance_to_next_question(
                       Store, Widgets,
                       [r2 |-> storage.r2, clock |-> now, puts |-> storage.puts])} :
       \E accepted \in {PendingAccepted(storage.r2, storage.puts)} :
           /\ current_question_index' = new.current_question_index
           /\ validation_error' = new.validation_error
           /\ form_session' = new.form_session
           /\ Rerun(new.current_question_index, new.form_session)
           /\ last' = [History("advance",
                               new.current_question_index - current_question_index,
                               accepted, << >>)
                         EXCEPT !.replaced = /\ accepted
                                             /\ ~IsNone(accepted_log[question.id])
                                             /\ Value(accepted_log[question.id]) # answer,
                                !.written = new.written,
                                !.errors = new.errors,
                                !.put_calls = new.put_calls,
                                !.storage = IF question.type = FILE_UPLOAD /\ Truthy(answer)
                                            THEN storage.r2 ELSE "none"]
           /\ accepted_log' = IF accepted
                              THEN [accepted_log EXCEPT ![question.id] = Some(answer)]
                              ELSE accepted_log
           /\ scenario' = ScenarioAfterAdvance(accepted)
    /\ UNCHANGED << current_step, completion_json, completion_email, delivery, now, uuids,
                    probe >>

\* "Back": go_back_to_previous_question(), then the rerun of main().
ClickBack ==
    /\ BackRendered
    /\ \E new \in {go_back_to_previous_question(Store)} :
           /\ current_question_index' = new.current_question_index
           /\ validation_error' = new.validation_error
           /\ form_session' = new.form_session
           /\ completion_json' = new.completion_json
           /\ completion_email' = new.completion_email
           /\ Rerun(new.current_question_index, new.form_session)
           /\ last' = History("back", new.current_question_index - current_question_index,
                              FALSE, << >>)
    /\ scenario' = -1
    /\ UNCHANGED << current_step, delivery, now, uuids, accepted_log, probe >>

\* "Submit": submit_questionnaire(), then the rerun of main(). The clock is read
\* (and the e-mail step run) only when the e-mail passes validate_email.
ClickSubmit ==
    /\ SubmitRendered
    /\ \E valid \in {validate_email(Some(email_input)).ok} :
       \E mail \in (IF valid THEN MailOutcomes
                     ELSE {Mail(FALSE, FALSE, FALSE, FALSE, "none")}) :
       \E clock \in (IF valid THEN now..MaxClock ELSE {now}) :
       \E new \in {submit_questionnaire(Store, Widgets, clock, mail)} :
           /\ current_question_index' = new.current_question_index
           /\ validation_error' = new.validation_error
           /\ form_session' = new.form_session
           /\ completion_json' = new.completion_json
           /\ completion_email' = new.completion_email
           /\ delivery' = new.delivery
           /\ Rerun(new.current_question_index, new.form_session)
           /\ last' = History("submit", new.current_question_index - current_question_index,
                              valid, email_input)
           /\ now' = clock
           /\ scenario' = ScenarioAfterSubmit(valid)
    /\ UNCHANGED << current_step, uuids, accepted_log, probe >>

\* "Start New Questionnaire" on the completion page: every key of the store is
\* deleted, and the next run of main() starts with initialize_session().
ClickStartNew ==
    /\ StartNewRendered
    /\ uuids < MaxSessions
    /\ uuids' = uuids + 1
    /\ \E clock \in now..MaxClock :
          /\ Fresh(uuids + 1, clock)
          /\ now' = clock
    /\ last' = History("reset", 0 - current_question_index, FALSE, << >>)
    /\ UNCHANGED probe

Next ==
    \/ Start
    \/ EditAnswer
    \/ EditEmail
    \/ ClickNext
    \/ ClickBack
    \/ ClickSubmit
    \/ ClickStartNew

Spec == Init /\ [][Next]_vars


TypeOK ==
    /\ current_step \in {"welcome", "questions"}
    /\ current_question_index \in Int
    /\ uuids \in 1..MaxSessions
    /\ now \in 0..MaxClock
    /\ scenario \in -1..(N + 2)

\* ------------------------------------------- the validator on its own
\* Questions of every modality, required and not required, and answers of every
\* Python shape the widgets (or a caller) can hand to validate_response.
ProbeQuestions ==
    { [q EXCEPT !.validation.required = r] :
         q \in { Q1, Q2, Q3, Q13, Q45,
                 [Q13 EXCEPT !.validation.max_length = Some(12)],
                 [Q13 EXCEPT !.validation.min_length = None],
                 [Q2 EXCEPT !.validation.min_selections = Some(2),
                            !.validation.max_selections = Some(3)],
                 [Q2 EXCEPT !.validation.min_selections = None,
                            !.validation.max_selections = None] },
         r \in BOOLEAN }
ProbeAnswers ==
    { PyNone, EmptyStr, PyList(<< >>),
      PyStr("", 1, 0, 1), PyStr("t", 0, 9, 0), PyStr("t", 0, 100, 0),
      PyStr("t", 0, 10, 0), PyStr("t", 2, 9, 3), PyStr("t", 1, 10, 1),
      PyStr("t", 0, 12, 0), PyStr("t", 0, 13, 0), PyStr("t", 0, 99, 0),
      Q1.options[1], Q1.options[12], Q2.options[1], PyStr("Nobody", 0, 6, 0),
      PyList(<< Q2.options[1] >>),
      PyList(<< Q2.options[1], Q2.options[2] >>),
      PyList(<< Q2.options[1], Q2.options[2], Q2.options[3] >>),
      PyList(<< Q2.options[1], Q2.options[2], Q2.options[3], Q2.options[4] >>),
      PyList(<< Q1.options[1] >>),
      PyList(<< Q2.options[7], Q1.options[1] >>),
      PyList(<< Q2.options[1], Q2.options[2], Q1.options[1] >>),
      PyFiles(Batch(5, "png", 1)) }

InitValidate ==
    /\ current_step = "welcome"
    /\ current_question_index = 0
    /\ validation_error = None
    /\ form_session = FormSession(1, 0)
    /\ input = None
    /\ checkbox_selections = [id \in CheckboxIds |-> None]
    /\ email_input = << >>
    /\ completion_json = None
    /\ completion_email = None
    /\ delivery = None
    /\ now = 0
    /\ uuids = 1
    /\ last = [op |-> "init", from |-> 0, moved |-> 0, accepted |-> FALSE, email |-> << >>,
               replaced |-> FALSE, written |-> {}, errors |-> << >>, storage |-> "none",
     put_calls |-> << >>]
    /\ accepted_log = [id \in QuestionIds |-> None]
    /\ scenario = 0
    /\ probe \in { Some([question |-> q, answer |-> a, result |-> None]) :
                      q \in ProbeQuestions, a \in ProbeAnswers }

\* validate_response(question, answer_value) is called on the pair.
Validate ==
    /\ ~IsNone(probe)
    /\ IsNone(Value(probe).result)
    /\ probe' = Some([Value(probe) EXCEPT !.result =
                         Some(validate_response(Value(probe).question, Value(probe).answer))])
    /\ UNCHANGED << current_step, current_question_index, validation_error, form_session,
                    input, checkbox_selections, email_input, completion_json,
                    completion_email, delivery, now, uuids, last, accepted_log, scenario >>

NextValidate == Validate

SpecValidate == InitValidate /\ [][NextValidate]_vars

\* ------------------------------------------- the e-mail validator on its own
\* Candidates: None, every string of at most maxlen characters over a letter,
\* an underscore, "@", "." and a blank, and longer ones with a digit, a hyphen,
\* another character, blanks around, several dots, several "@".
EmailAlphabet == {"a", "_", "@", ".", " "}
EmailCandidates(maxlen) ==
    {None}
    \cup { Some(s) : s \in UNION { [1..n -> EmailAlphabet] : n \in 0..maxlen } }
    \cup { Some(s) : s \in
             { << " ", "a", "1", "@", "a", ".", "a", "a", " " >>,
               << "a", "1", "-", "_", ".", "@", "a", "-", "1", ".", "a", "a" >>,
               << "a", "@", "a", ".", "a", ".", "a", "a", "a" >>,
               << "a", "@", "a", ".", "a", "1" >>,
               << "a", "@", "a", ".", "1", "a" >>,
               << "a", "@", "a", ".", "a", "-" >>,
               << "a", "!", "@", "a", ".", "a", "a" >>,
               << "a", "@", "a", "!", ".", "a", "a" >>,
               << "a", "@", "a", ".", "a", "a", "!" >>,
               << "a", "@", "@", "a", ".", "a", "a" >>,
               << "a", "@", "a", "@", "a", ".", "a", "a" >>,
               << "a", "a", " ", "@", "a", ".", "a", "a" >>,
               << "a", "@", "a", "a", " ", ".", "a", "a" >>,
               << "a", "@", "a", ".", "a", "a", "." >> } }

InitEmail ==
    /\ current_step = "welcome"
    /\ current_question_index = 0
    /\ validation_error = None
    /\ form_session = FormSession(1, 0)
    /\ input = None
    /\ checkbox_selections = [id \in CheckboxIds |-> None]
    /\ email_input = << >>
    /\ completion_json = None
    /\ completion_email = None
    /\ delivery = None
    /\ now = 0
    /\ uuids = 1
    /\ last = [op |-> "init", from |-> 0, moved |-> 0, accepted |-> FALSE, email |-> << >>,
               replaced |-> FALSE, written |-> {}, errors |-> << >>, storage |-> "none",
     put_calls |-> << >>]
    /\ accepted_log = [id \in QuestionIds |-> None]
    /\ scenario = 0
    /\ probe \in { Some([email |-> e, result |-> None]) : e \in EmailCandidates(MaxEmailLen) }

\* validate_email(email) is called on the candidate.
ValidateEmail ==
    /\ ~IsNone(probe)
    /\ IsNone(Value(probe).result)
    /\ probe' = Some([Value(probe) EXCEPT !.result = Some(validate_email(Value(probe).email))])
    /\ UNCHANGED << current_step, current_question_index, validation_error, form_session,
                    input, checkbox_selections, email_input, completion_json,
                    completion_email, delivery, now, uuids, last, accepted_log, scenario >>

NextEmail == ValidateEmail

SpecEmail == InitEmail /\ [][NextEmail]_vars

\* ------------------------------------------- batch_upload_files on its own
\* Validation rules handed to batch_upload_files: those of Q45, and a small set
\* whose limits short batches of small files can meet and cross.
Q45Rules ==
    [allowed_types |-> Value(Q45.validation.allowed_file_types),
     max_file_size_mb |-> Value(Q45.validation.max_file_size_mb),
     max_total_size_mb |-> Value(Q45.validation.max_total_size_mb),
     min_files |-> Value(Q45.validation.min_files),
     max_files |-> Value(Q45.validation.max_files)]
SmallRules ==
    [allowed_types |-> {"image/jpeg", "image/png"}, max_file_size_mb |-> 2,
     max_total_size_mb |-> 5, min_files |-> 2, max_files |-> 3]

\* Under SmallRules: every batch of at most maxlen files, each a JPEG or a PDF
\* of 1 MB, 2 MB (the limit) or one byte more.
SmallBatches(maxlen) ==
    UNION { { [i \in 1..n |-> File(i, kind[i].ext, kind[i].size)] :
                kind \in [1..n -> [ext : {"jpg", "pdf"}, size : {MB, 2 * MB, 2 * MB + 1}]] } :
            n \in 0..maxlen }
\* Under the rules of Q45: the count limits and their neighbours, the total at and
\* over its limit, one file over the size limit by a byte, of a type not allowed,
\* of no known type, both too large and of the wrong type, and batches breaking
\* a count limit together with a per-file rule.
Q45Batches ==
    { Batch(4, "jpg", 1), Batch(5, "jpg", 1), Batch(15, "png", 1), Batch(16, "webp", 1),
      Batch(10, "jpeg", 20), Batch(11, "jpg", 20), Batch(15, "jpg", 14),
      [Batch(5, "jpg", 1) EXCEPT ![2] = File(2, "jpg", 20 * MB + 1)],
      [Batch(5, "jpg", 1) EXCEPT ![3] = File(3, "pdf", MB)],
      [Batch(5, "jpg", 1) EXCEPT ![4] = File(4, "xyz", MB)],
      [Batch(5, "jpg", 1) EXCEPT ![5] = File(5, "pdf", 21 * MB)],
      [Batch(5, "jpg", 1) EXCEPT ![1] = File(1, "pdf", MB), ![5] = File(5, "png", 21 * MB)],
      [Batch(4, "jpg", 1) EXCEPT ![1] = File(1, "jpg", 21 * MB)],
      [Batch(16, "jpg", 1) EXCEPT ![16] = File(16, "pdf", MB)],
      [Batch(11, "jpg", 20) EXCEPT ![1] = File(1, "pdf", 20 * MB)] }
\* A call: a batch, its rules, and what put_object does for each of its files.
BatchCall(files, rules, puts) ==
    Some([files |-> files, rules |-> rules, puts |-> puts, result |-> None])

InitBatch ==
    /\ current_step = "welcome"
    /\ current_question_index = 0
    /\ validation_error = None
    /\ form_session = FormSession(1, 0)
    /\ input = None
    /\ checkbox_selections = [id \in CheckboxIds |-> None]
    /\ email_input = << >>
    /\ completion_json = None
    /\ completion_email = None
    /\ delivery = None
    /\ now = 0
    /\ uuids = 1
    /\ last = [op |-> "init", from |-> 0, moved |-> 0, accepted |-> FALSE, email |-> << >>,
               replaced |-> FALSE, written |-> {}, errors |-> << >>, storage |-> "none",
     put_calls |-> << >>]
    /\ accepted_log = [id \in QuestionIds |-> None]
    /\ scenario = 0
    /\ \/ \E files \in SmallBatches(MaxBatchLen) : \E puts \in PutOutcomes(Len(files)) :
             probe = BatchCall(files, SmallRules, puts)
       \/ \E files \in Q45Batches : \E puts \in PutOutcomes(Len(files)) :
             probe = BatchCall(files, Q45Rules, puts)

\* batch_upload_files(files, session_folder, validation_rules) is called.
UploadBatch ==
    /\ ~IsNone(probe)
    /\ IsNone(Value(probe).result)
    /\ probe' = Some([Value(probe) EXCEPT !.result =
                        Some(batch_upload_files(Value(probe).files,
                                                form_session.r2_folder_path,
                                                Value(probe).rules, now, Value(probe).puts))])
    /\ UNCHANGED << current_step, current_question_index, validation_error, form_session,
                    input, checkbox_selections, email_input, completion_json,
                    completion_email, delivery, now, uuids, last, accepted_log, scenario >>

NextBatch == UploadBatch

SpecBatch == InitBatch /\ [][NextBatch]_vars

\* ---------------------------------------------------- the export on its own
\* Sessions handed to the export: add_response called up to maxlen times, with
\* ids of the catalog and one id the catalog does not have, then left open or
\* completed at some time.
ForeignId == "Q99"
RECURSIVE SessionAfter(_, _)
SessionAfter(session, ids) ==
    IF Len(ids) = 0 THEN session
    ELSE SessionAfter(add_response(session, Head(ids),
                                   Response(Head(ids), PyStr(Head(ids), 0, Len(ids), 0),
                                            TRUE, << >>)),
                      Tail(ids))
ExportSessions(maxlen) ==
    LET open == { SessionAfter(FormSession(1, 0), ids) :
                    ids \in UNION { [1..n -> QuestionIds \cup {ForeignId}] : n \in 0..maxlen } }
    IN  open \cup { mark_complete(session, << "a", "@", "a", ".", "a", "a" >>, clock) :
                       session \in open, clock \in 0..MaxClock }
ExportPaths == {"to_dict", "export_to_json", "save_json_to_file"}

InitExport ==
    /\ current_step = "welcome"
    /\ current_question_index = 0
    /\ validation_error = None
    /\ form_session \in ExportSessions(MaxExportLen)
    /\ input = None
    /\ checkbox_selections = [id \in CheckboxIds |-> None]
    /\ email_input = << >>
    /\ completion_json = None
    /\ completion_email = None
    /\ delivery = None
    /\ now = 0
    /\ uuids = 1
    /\ last = [op |-> "init", from |-> 0, moved |-> 0, accepted |-> FALSE, email |-> << >>,
               replaced |-> FALSE, written |-> {}, errors |-> << >>, storage |-> "none",
     put_calls |-> << >>]
    /\ accepted_log = [id \in QuestionIds |-> None]
    /\ scenario = 0
    /\ \E path \in ExportPaths : \E disk \in {"ok", "OSError"} :
          /\ path # "save_json_to_file" => disk = "ok"
          /\ probe = Some([path |-> path, disk |-> disk, calls |-> << >>])

\* What one call on an export path gives: raised, or a returned value (the
\* document; True/False for save_json_to_file), and the document it yielded (for
\* save_json_to_file, the one written to the file).
ExportCall(path, session, qmap, disk) ==
    IF path = "save_json_to_file"
    THEN LET saved == save_json_to_file(session, qmap, disk)
         IN  [raised |-> FALSE, returned |-> Some(saved.returned), document |-> saved.file]
    ELSE IF path = "export_to_json"
    THEN LET exported == export_to_json(session, qmap)
         IN  [raised |-> exported.raised, returned |-> exported.json,
              document |-> exported.json]
    ELSE IF ToDictRaises(session, qmap)
    THEN [raised |-> TRUE, returned |-> None, document |-> None]
    ELSE [raised |-> FALSE, returned |-> Some(to_dict(session, qmap)),
          document |-> Some(to_dict(session, qmap))]

\* The session is exported (at most twice); the session itself is not assigned to.
Export ==
    /\ ~IsNone(probe)
    /\ Len(Value(probe).calls) < 2
    /\ probe' = Some([Value(probe) EXCEPT !.calls =
                        Append(@, ExportCall(Value(probe).path, form_session, questions_map,
                                             Value(probe).disk))])
    /\ UNCHANGED << current_step, current_question_index, validation_error, form_session,
                    input, checkbox_selections, email_input, completion_json,
                    completion_email, delivery, now, uuids, last, accepted_log, scenario >>

\* Time passes between two exports.
ExportTick ==
    /\ ~IsNone(probe)
    /\ now < MaxClock
    /\ now' = now + 1
    /\ UNCHANGED << current_step, current_question_index, validation_error, form_session,
                    input, checkbox_selections, email_input, completion_json,
                    completion_email, delivery, uuids, last, accepted_log, scenario, probe >>

NextExport == Export \/ ExportTick

SpecExport == InitExport /\ [][NextExport]_vars

\* ------------------------------------------- the e-mail service on its own
\* What a transport can do: deliver, or raise one of these.
TransportOutcomes == {"ok", "authentication failed", "connection refused", "timed out"}

InitDelivery ==
    /\ current_step = "welcome"
    /\ current_question_index = 0
    /\ validation_error = None
    /\ form_session = FormSession(1, 0)
    /\ input = None
    /\ checkbox_selections = [id \in CheckboxIds |-> None]
    /\ email_input = << >>
    /\ completion_json = None
    /\ completion_email = None
    /\ delivery = None
    /\ now = 0
    /\ uuids = 1
    /\ last = [op |-> "init", from |-> 0, moved |-> 0, accepted |-> FALSE, email |-> << >>,
               replaced |-> FALSE, written |-> {}, errors |-> << >>, storage |-> "none",
     put_calls |-> << >>]
    /\ accepted_log = [id \in QuestionIds |-> None]
    /\ scenario = 0
    /\ \E yagmail_configured \in BOOLEAN : \E smtp_configured \in BOOLEAN :
       \E yagmail \in TransportOutcomes : \E smtp \in TransportOutcomes :
          probe = Some([service |-> EmailDeliveryService(yagmail_configured, smtp_configured),
                        yagmail |-> yagmail, smtp |-> smtp, result |-> None])

\* send_questionnaire_completion_email(to_email, questionnaire_data) is called.
SendEmail ==
    /\ ~IsNone(probe)
    /\ IsNone(Value(probe).result)
    /\ probe' = Some([Value(probe) EXCEPT !.result =
                        Some(send_questionnaire_completion_email(
                                Value(probe).service, Value(probe).yagmail, Value(probe).smtp))])
    /\ UNCHANGED << current_step, current_question_index, validation_error, form_session,
                    input, checkbox_selections, email_input, completion_json,
                    completion_email, delivery, now, uuids, last, accepted_log, scenario >>

NextDelivery == SendEmail

SpecDelivery == InitDelivery /\ [][NextDelivery]_vars

\* ================================================================ properties

\* ---- C1
\* C1: whatever callbacks have run (start, advance, go back, submit, reset), the
\* cursor is between 0 and N+1; and go_back_to_previous_question called on a
\* store whose cursor is 0 leaves the cursor at 0.
C1_CursorInRange ==
    /\ current_question_index >= 0
    /\ current_question_index <= N + 1
    /\ go_back_to_previous_question(
          [Store EXCEPT !.current_question_index = 0]).current_question_index = 0
\* A second session, walked forward and back to its first question.
C1_Witness ==
    /\ uuids = 2
    /\ last.op = "back"
    /\ last.from = 1
    /\ current_question_index = 0

\* ---- C2
\* The reasons advance can give for rejecting the answer pending at the cursor.
RejectionReasons ==
    LET question == QuestionAt(current_question_index)
        answer == PendingAnswer(question, Widgets)
        checked == validate_response(question, answer)
    IN  IF question.type = FILE_UPLOAD
        THEN IF ~Truthy(answer)
             THEN { Line(Msg("Please upload at least 5 images.", 0, 0)) }
             ELSE { handle_file_upload(answer, question.id, form_session,
                                       s.r2, now, s.puts).error :
                       s \in { t \in StorageOutcomes(Len(answer.files)) :
                                  ~handle_file_upload(answer, question.id, form_session,
                                                      t.r2, now, t.puts).ok } }
        ELSE IF checked.ok THEN {} ELSE { Line(Value(checked.error)) }
\* C2: a step of advance_to_next_question whose pending answer is rejected
\* (validate_response false; for the file question an empty answer or an error
\* from handle_file_upload) leaves the cursor and the whole session, responses
\* included, as they were, and sets validation_error to the reason of the rejection.
C2_RejectedAdvanceAborts ==
    [][ (ClickNext /\ ~last'.accepted) =>
          /\ current_question_index' = current_question_index
          /\ form_session'.all_responses = form_session.all_responses
          /\ form_session' = form_session
          /\ validation_error' \in RejectionReasons ]_vars
\* A rejected advance on a question that already holds a committed Response.
C2_Witness ==
    /\ last.op = "advance"
    /\ ~last.accepted
    /\ current_question_index = last.from
    /\ current_question_index < N
    /\ ~IsNone(validation_error)
    /\ HasResponse(form_session.all_responses, QuestionAt(current_question_index).id)

\* ---- C3
\* C3: a step of advance_to_next_question at cursor k < N whose pending answer is
\* accepted stores a Response with validation_status true under QUESTIONS[k].id,
\* clears validation_error and moves the cursor to k+1; the Response of every
\* other question is what it was.
C3_AcceptedAdvanceCommits ==
    [][ (ClickNext /\ last'.accepted) =>
          LET k == current_question_index
              id == QuestionAt(k).id
              stored == get_response(form_session', id)
          IN  /\ k < N
              /\ current_question_index' = k + 1
              /\ validation_error' = None
              /\ ~IsNone(stored)
              /\ Value(stored).question_id = id
              /\ Value(stored).validation_status = TRUE
              /\ \A other \in QuestionIds \ {id} :
                    get_response(form_session', other) = get_response(form_session, other) ]_vars
\* An accepted advance that cleared an earlier error, with another answer on file.
C3_Witness ==
    /\ last.op = "advance"
    /\ last.accepted
    /\ current_question_index = last.from + 1
    /\ IsNone(validation_error)
    /\ Len(form_session.all_responses) >= 2
    /\ HasResponse(form_session.all_responses, QuestionAt(last.from).id)

\* ---- C4
\* What C4 asks of one step: a cursor change of at most one, +1 only by an advance
\* or submit whose pending answer / e-mail passed its check in that step, -1 only
\* by go_back_to_previous_question.
CursorStepRule ==
    LET d == current_question_index' - current_question_index IN
    /\ d \in {-1, 0, 1}
    /\ d = 1 => ((ClickNext \/ ClickSubmit) /\ last'.accepted)
    /\ d = -1 => ClickBack
\* C4 as stated: every step obeys the rule.
C4_EveryStep == [][CursorStepRule]_vars
\* C4: every step other than the reset on the completion page obeys the rule (so a
\* stored valid Response never carries the cursor past a question whose pending
\* answer is rejected); the reset takes the cursor from N+1 to 0.
C4_EveryStepButReset ==
    [][ \/ CursorStepRule
        \/ /\ ClickStartNew
           /\ current_question_index = N + 1
           /\ current_question_index' = 0 ]_vars
\* A rejected advance on a question whose stored Response is valid: the cursor stayed.
C4_Witness ==
    /\ last.op = "advance"
    /\ ~last.accepted
    /\ last.moved = 0
    /\ current_question_index < N
    /\ LET stored == get_response(form_session, QuestionAt(current_question_index).id)
       IN  ~IsNone(stored) /\ Value(stored).validation_status

\* ---- C5
\* How many Responses the session holds for a question.
ResponseCount(id) ==
    Cardinality({ i \in 1..Len(form_session.all_responses) :
                     form_session.all_responses[i].question_id = id })
\* Whether a Response records the accepted answer: the answer itself, or for the
\* file question one FileReference per uploaded file, in order.
Records(response, answer) ==
    IF questions_map[response.question_id].type = FILE_UPLOAD
    THEN /\ Len(response.file_references) = Len(answer.files)
         /\ \A i \in 1..Len(answer.files) :
               /\ response.file_references[i].original_filename =
                     [stem |-> answer.files[i].stem, ext |-> answer.files[i].ext]
               /\ response.file_references[i].file_size_bytes = answer.files[i].size
    ELSE response.answer_value = answer
\* C5: the session holds exactly one Response for each question an advance has
\* accepted an answer for, recording the most recently accepted answer, and no
\* Response for any other question.
C5_LastWriteWins ==
    /\ \A id \in QuestionIds :
          IF IsNone(accepted_log[id]) THEN ResponseCount(id) = 0
          ELSE /\ ResponseCount(id) = 1
               /\ Records(Value(get_response(form_session, id)), Value(accepted_log[id]))
    /\ \A i \in 1..Len(form_session.all_responses) :
          form_session.all_responses[i].question_id \in QuestionIds
\* A question answered twice with different accepted answers.
C5_Witness ==
    /\ last.op = "advance"
    /\ last.replaced
    /\ ResponseCount(QuestionAt(last.from).id) = 1
    /\ Value(get_response(form_session, QuestionAt(last.from).id)).answer_value =
          Value(accepted_log[QuestionAt(last.from).id])

\* ---- C6
\* C6: on a fresh session, after k <= N accepted advances in a row the cursor is k;
\* an invalid e-mail submitted then leaves the cursor at N with an error set and
\* the session not completed; a valid e-mail submitted next puts the cursor at
\* N+1, completes the session and stores an export document whose user_email is
\* the e-mail as submitted.
C6_StraightThrough ==
    /\ scenario \in 0..N => current_question_index = scenario
    /\ scenario = N + 1 =>
          /\ current_question_index = N
          /\ ~IsNone(validation_error)
          /\ ~form_session.completion_status
    /\ scenario = N + 2 =>
          /\ current_question_index = N + 1
          /\ form_session.completion_status
          /\ ~IsNone(completion_json)
          /\ Value(completion_json).submission_metadata.user_email = Some(last.email)
\* The end of the run, the e-mail typed with blanks around it.
C6_Witness ==
    /\ scenario = N + 2
    /\ last.op = "submit"
    /\ Len(last.email) > 0
    /\ Head(last.email) = " "

\* ---- C7
\* C7: a completed session has completed_at set and a user_email that is non-empty
\* and passes validate_email.
C7_CompletedHasValidEmail ==
    form_session.completion_status =>
        /\ ~IsNone(form_session.completed_at)
        /\ ~IsNone(form_session.user_email)
        /\ Len(Value(form_session.user_email)) > 0
        /\ validate_email(form_session.user_email).ok
C7_Witness ==
    /\ form_session.completion_status
    /\ form_session.completed_at = Some(MaxClock)
    /\ form_session.user_email = Some(<< "a", "@", "a", ".", "a", "a" >>)

\* ---- C8
\* C8: after submit_questionnaire has run on a valid e-mail, whatever the e-mail
\* step did, the session is completed, the cursor is N+1 and completion_json
\* holds the export document.
C8_DeliveryNeverBlocks ==
    (last.op = "submit" /\ last.accepted) =>
        /\ form_session.completion_status
        /\ current_question_index = N + 1
        /\ ~IsNone(completion_json)
        /\ Value(completion_json) = to_dict(form_session, questions_map)
\* A submit during which the e-mail step raised something unexpected.
C8_Witness ==
    /\ last.op = "submit"
    /\ last.accepted
    /\ ~IsNone(delivery)
    /\ Value(delivery).notice = "Unable to send email at this time."
    /\ current_question_index = N + 1

\* ---- C9
\* C9: from a state with the cursor at N+1, a step either changes nothing of the
\* session store (cursor, session, completion fields) or is the reset, which
\* leaves a fresh session (new session_id, no responses, not completed) at cursor 0.
C9_TerminalOnlyReset ==
    [][ current_question_index = N + 1 =>
          \/ UNCHANGED << current_step, current_question_index, validation_error,
                          form_session, completion_json, completion_email >>
          \/ /\ ClickStartNew
             /\ current_question_index' = 0
             /\ form_session'.session_id # form_session.session_id
             /\ form_session'.all_responses = << >>
             /\ ~form_session'.completion_status
             /\ IsNone(form_session'.user_email)
             /\ IsNone(form_session'.completed_at)
             /\ IsNone(completion_json') ]_vars
\* The state a reset of a completed session leaves.
C9_Witness ==
    /\ last.op = "reset"
    /\ last.from = N + 1
    /\ current_question_index = 0
    /\ form_session.session_id = 2
    /\ form_session.all_responses = << >>

\* ---- C10
\* The one message of validate_response that mentions "required".
MentionsRequired(m) == m.code = "This question is required. Please provide an answer."
\* C10: validate_response on an empty answer (None, "", []) rejects with the
\* "required" reason when the question is required, whatever its type, and
\* accepts when it is not required.
C10_RequiredFirst ==
    (~IsNone(probe) /\ ~IsNone(Value(probe).result)) =>
        LET p == Value(probe)
            r == Value(p.result)
        IN  IsEmptyValue(p.answer) =>
               IF p.question.validation.required
               THEN ~r.ok /\ ~IsNone(r.error) /\ MentionsRequired(Value(r.error))
               ELSE r.ok /\ IsNone(r.error)
\* The required radio question handed None.
C10_Witness ==
    /\ ~IsNone(probe)
    /\ ~IsNone(Value(probe).result)
    /\ Value(probe).question.type = MULTIPLE_CHOICE
    /\ Value(probe).question.validation.required
    /\ Value(probe).answer = PyNone
    /\ ~Value(Value(probe).result).ok

\* ---- C11
\* Whether a length lies in [min, max], an unset bound being no bound.
WithinLimits(n, min, max) ==
    /\ IsNone(min) \/ n >= Value(min)
    /\ IsNone(max) \/ n <= Value(max)
\* The probe is a text question handed a string.
TextProbe ==
    /\ ~IsNone(probe)
    /\ ~IsNone(Value(probe).result)
    /\ Value(probe).question.type \in {SHORT_ANSWER, PARAGRAPH}
    /\ Value(probe).answer.kind = "str"
\* What C11 asks of a text question and a string: accepted exactly when the
\* trimmed length is within the limits, and a rejection for falling short
\* reports min_length and the trimmed length.
TextRule ==
    LET p == Value(probe)
        v == p.question.validation
        r == Value(p.result)
        trimmed == p.answer.core
    IN  /\ r.ok <=> WithinLimits(trimmed, v.min_length, v.max_length)
        /\ (~IsNone(v.min_length) /\ trimmed < Value(v.min_length)) =>
               /\ ~r.ok
               /\ Value(r.error).a = Value(v.min_length)
               /\ Value(r.error).b = trimmed
\* C11 as stated: the rule for every text question with a min_length and every
\* string answer.
C11_EveryString ==
    (TextProbe /\ ~IsNone(Value(probe).question.validation.min_length)) => TextRule
\* C11: the rule for every text question and every non-empty string answer (so
\* exactly min_length trimmed characters are accepted and min_length - 1
\* rejected with both numbers in the reason); the empty string is decided by the
\* required check alone.
C11_NonEmptyString ==
    TextProbe =>
        IF PyLen(Value(probe).answer) > 0 THEN TextRule
        ELSE Value(Value(probe).result).ok = ~Value(probe).question.validation.required
\* Nine characters between blanks, one short of Q13's minimum of ten.
C11_Witness ==
    /\ TextProbe
    /\ Value(probe).question = Q13
    /\ Value(probe).answer = PyStr("t", 2, 9, 3)
    /\ Value(Value(probe).result).error =
          Some(Msg("Please provide at least {min_length} characters. Current length: {len} characters.",
                   10, 9))

\* ---- C12
\* The probe is a checkbox question handed a non-empty list of strings.
ListProbe ==
    /\ ~IsNone(probe)
    /\ ~IsNone(Value(probe).result)
    /\ Value(probe).question.type = CHECKBOXES
    /\ Value(probe).answer.kind = "list"
    /\ Len(Value(probe).answer.items) > 0
    /\ Len(Value(probe).answer.files) = 0
\* C12: a non-empty list is accepted exactly when its length is within
\* [min_selections, max_selections] and every element is an option; too few is
\* reported before too many, and both before a foreign element.  The empty list
\* handed to a required question is rejected by the required check.
C12_SelectionLimits ==
    /\ ListProbe =>
          LET p == Value(probe)
              v == p.question.validation
              r == Value(p.result)
              n == Len(p.answer.items)
              members == \A i \in 1..n : InOptions(p.answer.items[i], p.question)
              few == ~IsNone(v.min_selections) /\ n < Value(v.min_selections)
              many == ~IsNone(v.max_selections) /\ n > Value(v.max_selections)
          IN  /\ r.ok <=> (WithinLimits(n, v.min_selections, v.max_selections) /\ members)
              /\ few => Value(r.error) =
                           Msg("Please select at least {min_selections} option(s).",
                               Value(v.min_selections), 0)
              /\ (~few /\ many) => Value(r.error) =
                           Msg("Please select at most {max_selections} option(s).",
                               Value(v.max_selections), 0)
              /\ (~few /\ ~many /\ ~members) =>
                     Value(r.error) = Msg("Invalid selection: '{selection}'", 0, 0)
    /\ (/\ ~IsNone(probe)
        /\ ~IsNone(Value(probe).result)
        /\ Value(probe).question.type = CHECKBOXES
        /\ Value(probe).question.validation.required
        /\ Value(probe).answer = PyList(<< >>)) =>
          /\ ~Value(Value(probe).result).ok
          /\ MentionsRequired(Value(Value(Value(probe).result).error))
\* Three selections, one of them foreign, handed to Q2 (at least 1, at most 2).
C12_Witness ==
    /\ ListProbe
    /\ Value(probe).question = Q2
    /\ Value(probe).answer = PyList(<< Q2.options[1], Q2.options[2], Q1.options[1] >>)
    /\ Value(Value(probe).result).error =
          Some(Msg("Please select at most {max_selections} option(s).", 2, 0))

\* ---- C13
\* The probe is a radio question handed an answer that is none of its options.
ForeignChoiceProbe ==
    /\ ~IsNone(probe)
    /\ ~IsNone(Value(probe).result)
    /\ Value(probe).question.type = MULTIPLE_CHOICE
    /\ ~(Value(probe).answer.kind = "str" /\ InOptions(Value(probe).answer, Value(probe).question))
\* C13 as stated: such an answer is rejected whatever the required flag.
C13_ForeignAlwaysRejected ==
    ForeignChoiceProbe => ~Value(Value(probe).result).ok
\* C13: such an answer is rejected, except the empty answer (None, "", [])
\* handed to a question that is not required, which is accepted.
C13_ForeignRejectedUnlessOptionalEmpty ==
    ForeignChoiceProbe =>
        (Value(Value(probe).result).ok <=>
            (IsEmptyValue(Value(probe).answer) /\ ~Value(probe).question.validation.required))
\* A string that is an option of another question, handed to Q1 made optional.
C13_Witness ==
    /\ ForeignChoiceProbe
    /\ ~Value(probe).question.validation.required
    /\ Value(probe).answer = Q2.options[1]
    /\ ~Value(Value(probe).result).ok

\* ---- C14
\* The form local@domain.tld read off a string: one "@" only; the top-level label
\* is what follows the last "."; local and domain are not empty and drawn from
\* their character classes ("a" a letter, "1" a digit, "_" one of _%+).
HasEmailForm(t) ==
    LET ats == { i \in 1..Len(t) : t[i] = "@" }
        dots == { i \in 1..Len(t) : t[i] = "." }
    IN  /\ Cardinality(ats) = 1
        /\ dots # {}
        /\ LET at == CHOOSE i \in ats : TRUE
               dot == CHOOSE i \in dots : \A j \in dots : j <= i
           IN  /\ at > 1
               /\ dot > at + 1
               /\ Len(t) >= dot + 2
               /\ \A i \in 1..(at - 1) : t[i] \in {"a", "1", ".", "_", "-"}
               /\ \A i \in (at + 1)..(dot - 1) : t[i] \in {"a", "1", ".", "-"}
               /\ \A i \in (dot + 1)..Len(t) : t[i] = "a"
\* C14: validate_email accepts a candidate exactly when it is a non-empty string
\* whose trimmed value has the form local@domain.tld; in particular it rejects
\* None, "", and a trimmed value with no "@", several "@", a blank inside, an
\* empty local part, or a top-level label that is missing or shorter than two
\* letters.
C14_EmailForm ==
    (~IsNone(probe) /\ ~IsNone(Value(probe).result)) =>
        LET e == Value(probe).email
            r == Value(Value(probe).result)
        IN  /\ r.ok <=> (~IsNone(e) /\ Len(Value(e)) > 0 /\ HasEmailForm(Strip(Value(e))))
            /\ r.ok <=> IsNone(r.error)
            /\ (~IsNone(e) /\ \E i \in 1..Len(Strip(Value(e))) : Strip(Value(e))[i] = " ")
                  => ~r.ok
\* The shortest address there is, accepted.
C14_Witness ==
    /\ ~IsNone(probe)
    /\ ~IsNone(Value(probe).result)
    /\ Value(probe).email = Some(<< "a", "@", "a", ".", "a", "a" >>)
    /\ Value(Value(probe).result).ok

\* ---- C15
\* The four rules read off a batch, every bound inclusive.
CountOK(files, rules) == rules.min_files <= Len(files) /\ Len(files) <= rules.max_files
TotalOK(files, rules) == SumSizes(files) <= rules.max_total_size_mb * MB
SizeOK(file, rules) == file.size <= rules.max_file_size_mb * MB
TypeOK_(file, rules) ==
    \/ file.ext \in {"jpg", "jpeg"} /\ "image/jpeg" \in rules.allowed_types
    \/ file.ext = "png" /\ "image/png" \in rules.allowed_types
    \/ file.ext = "webp" /\ "image/webp" \in rules.allowed_types
    \/ file.ext = "pdf" /\ "application/pdf" \in rules.allowed_types
FailingFiles(files, rules) ==
    { i \in 1..Len(files) : ~(SizeOK(files[i], rules) /\ TypeOK_(files[i], rules)) }
\* The errors of a result that report a broken rule (the others report a failed
\* put_object).
IsRuleError(m) ==
    m.code \notin {"Upload failed: {e}", "Unexpected error during upload: {e}"}
RuleErrors(result) == SelectSeq(result.errors, IsRuleError)
BatchDone == ~IsNone(probe) /\ ~IsNone(Value(probe).result)
\* C15: batch_upload_files checks the count against [min_files, max_files], then
\* the total size against max_total_size_mb, then each file's size against
\* max_file_size_mb and its MIME type against allowed_types, every bound
\* inclusive; it reports no validation error exactly when all four rules hold.
C15_FourRulesInOrder ==
    BatchDone =>
        LET files == Value(probe).files
            rules == Value(probe).rules
            errors == RuleErrors(Value(Value(probe).result))
            first == errors[1].code
        IN  /\ Len(errors) = 0 <=>
                  /\ CountOK(files, rules)
                  /\ TotalOK(files, rules)
                  /\ FailingFiles(files, rules) = {}
            /\ ~CountOK(files, rules) =>
                  first \in {"Please upload at least {min_files} file(s). Currently: {len} file(s).",
                             "Please upload at most {max_files} file(s). Currently: {len} file(s)."}
            /\ (CountOK(files, rules) /\ ~TotalOK(files, rules)) =>
                  first = "Total upload size exceeds {max_total_size_mb}MB limit. Current total: {total}MB"
            /\ (CountOK(files, rules) /\ TotalOK(files, rules)) =>
                  \A k \in 1..Len(errors) :
                     \E i \in FailingFiles(files, rules) :
                        /\ errors[k].a = files[i].stem
                        /\ ~SizeOK(files[i], rules) <=>
                              errors[k].code = "File '{file_name}' exceeds {max_file_size_mb}MB limit."
\* A batch on every inclusive bound at once (the most files, each of the largest
\* size allowed short of breaking the total, the total exactly at its limit)
\* goes through without an error.
C15_Witness ==
    /\ BatchDone
    /\ Value(probe).rules = SmallRules
    /\ Len(Value(probe).files) = SmallRules.max_files
    /\ SumSizes(Value(probe).files) = SmallRules.max_total_size_mb * MB
    /\ \E i \in 1..Len(Value(probe).files) :
          Value(probe).files[i].size = SmallRules.max_file_size_mb * MB
    /\ Len(Value(Value(probe).result).errors) = 0

\* ---- C16
\* C16: the error list holds one error for each violated batch rule (count,
\* total size) and one for each failing file, so that a batch violating several
\* rules has them all reported by the one call.
C16_EveryFailureReported ==
    BatchDone =>
        LET files == Value(probe).files
            rules == Value(probe).rules
        IN  Len(RuleErrors(Value(Value(probe).result)))
              = (IF CountOK(files, rules) THEN 0 ELSE 1)
                + (IF TotalOK(files, rules) THEN 0 ELSE 1)
                + Cardinality(FailingFiles(files, rules))

\* ---- C17
\* C17: whenever batch_upload_files reports a validation failure (count, total
\* size, a file's size or type), no file of the batch has been written to the
\* bucket and the uploaded list is empty.
C17_NothingWrittenOnFailure ==
    BatchDone =>
        LET result == Value(Value(probe).result)
        IN  Len(RuleErrors(result)) > 0 =>
               /\ result.written = {}
               /\ Len(result.uploaded_files) = 0

\* ---- C18
\* The keys a session of the given id, started at the given time, can write.
KeysOf(uuid, clock) ==
    { R2Key(FormSession(uuid, clock).r2_folder_path, c, File(stem, ext, MB)) :
        c \in 0..MaxClock, stem \in 1..16, ext \in {"jpg", "png", "webp"} }
\* The keys the sessions of one session_id can write, whenever they started.
SessionKeys == [uuid \in 1..MaxSessions |-> UNION { KeysOf(uuid, clock) : clock \in 0..MaxClock }]
\* The FileReferences the committed Responses of a session hold.
FileReferences(session) ==
    UNION { { session.all_responses[i].file_references[j] :
                j \in 1..Len(session.all_responses[i].file_references) } :
            i \in 1..Len(session.all_responses) }
\* State part: r2_folder_path is the one made from session_id and
\* started_at; every key written to the bucket by the last operation and every
\* FileReference.r2_key held lies in that folder; no key of a session with
\* another session_id coincides with a key written.
C18_KeysInSessionFolder ==
    IsNone(probe) =>
        /\ form_session.r2_folder_path =
              [session_id |-> form_session.session_id, timestamp |-> form_session.started_at]
        /\ \A key \in last.written : key.folder = form_session.r2_folder_path
        /\ \A ref \in FileReferences(form_session) :
              ref.r2_key.folder = form_session.r2_folder_path
        /\ \A uuid \in 1..MaxSessions :
              uuid # form_session.session_id =>
                 /\ \A key \in last.written : key \notin SessionKeys[uuid]
                 /\ \A ref \in FileReferences(form_session) :
                       ref.r2_key \notin SessionKeys[uuid]
\* Step part: r2_folder_path changes only when the session is replaced by
\* a new one, with another session_id.
C18_FolderFixedAtCreation ==
    [][form_session'.r2_folder_path # form_session.r2_folder_path
         => /\ last'.op = "reset"
            /\ form_session'.session_id # form_session.session_id]_vars
\* C18: r2_folder_path is computed once, when the session is created, from
\* session_id and started_at, and never changes afterwards; every key written to
\* the bucket and every FileReference.r2_key has that folder as its prefix; keys
\* of sessions with different session_ids never coincide.
C18_SessionFolder == []C18_KeysInSessionFolder /\ C18_FolderFixedAtCreation
\* A second session holds the references of the files it wrote.
C18_Witness ==
    /\ IsNone(probe)
    /\ form_session.session_id = 2
    /\ last.op = "advance"
    /\ Cardinality(last.written) = 5
    /\ Cardinality(FileReferences(form_session)) = 5

\* ---- C19
\* State part: a committed Response to a question that is not a file upload
\* holds no FileReference.
C19_NoReferenceOutsideUploads ==
    IsNone(probe) =>
        \A i \in 1..Len(form_session.all_responses) :
           questions_map[form_session.all_responses[i].question_id].type # FILE_UPLOAD
              => Len(form_session.all_responses[i].file_references) = 0
\* Step part: a FileReference enters the committed Responses only by an accepted
\* advance, and its key is one put_object stored during that advance; an advance
\* that failed (validation or upload) leaves the references as they were.
C19_ReferencesEnterByWrites ==
    [][/\ \A ref \in FileReferences(form_session') \ FileReferences(form_session) :
            /\ last'.op = "advance"
            /\ last'.accepted
            /\ ref.r2_key \in last'.written
       /\ (last'.op = "advance" /\ ~last'.accepted)
            => FileReferences(form_session') = FileReferences(form_session)]_vars
\* C19: every FileReference held corresponds to a file whose storage write
\* succeeded; a failed validation or upload never yields a FileReference in a
\* committed Response; file_references is empty for the Responses to questions
\* that are not file uploads.
C19_ReferencesAreWrittenFiles == []C19_NoReferenceOutsideUploads /\ C19_ReferencesEnterByWrites
\* The upload of the first session has just been accepted: five references, the
\* five keys stored by that advance.
C19_Witness ==
    /\ IsNone(probe)
    /\ form_session.session_id = 1
    /\ last.op = "advance"
    /\ last.accepted
    /\ QuestionAt(last.from).type = FILE_UPLOAD
    /\ { ref.r2_key : ref \in FileReferences(form_session) } = last.written
    /\ Cardinality(last.written) = 5

\* ---- C20
\* The catalog question of an id, looked up in the list of questions.
CatalogQuestion(id) == QUESTIONS[CHOOSE i \in 1..N : QUESTIONS[i].id = id]
\* A responses array matches the committed Responses: one entry for each of
\* them, no entry for anything else, each entry with the text and the type of
\* the catalog question it answers.
ExportMatches(responses, session) ==
    /\ \A i \in 1..Len(session.all_responses) :
          Cardinality({ k \in 1..Len(responses) :
                          responses[k].r = ResponseToDict(session.all_responses[i]) }) = 1
    /\ \A k \in 1..Len(responses) :
          /\ \E i \in 1..Len(session.all_responses) :
                responses[k].r.question_id = session.all_responses[i].question_id
          /\ \A j \in 1..Len(responses) :
                responses[j].r.question_id = responses[k].r.question_id => j = k
          /\ responses[k].question_text = CatalogQuestion(responses[k].r.question_id).text
          /\ responses[k].question_type = CatalogQuestion(responses[k].r.question_id).type
\* C20: the responses array of the export document has exactly one entry for
\* each committed Response and no other entry, each carrying the question_text
\* and question_type of the catalog question with its question_id; this holds of
\* the document stored at submission and of the export of the session at any
\* moment.
C20_ExportCoversResponses ==
    IsNone(probe) =>
        /\ ~export_to_json(form_session, questions_map).raised
        /\ ExportMatches(Value(export_to_json(form_session, questions_map).json).responses,
                         form_session)
        /\ ~IsNone(completion_json) =>
              ExportMatches(Value(completion_json).responses, form_session)
\* A submitted session: the stored document has an entry for each of the N
\* questions, the file upload among them.
C20_Witness ==
    /\ IsNone(probe)
    /\ ~IsNone(completion_json)
    /\ Len(Value(completion_json).responses) = N
    /\ Len(form_session.all_responses) = N
    /\ \E k \in 1..N : Value(completion_json).responses[k].question_type = FILE_UPLOAD

\* ---- C21
HoldsForeignResponse(session) ==
    \E i \in 1..Len(session.all_responses) :
        session.all_responses[i].question_id \notin { QUESTIONS[k].id : k \in 1..N }
\* C21: exporting a session that holds a Response whose question_id is not in
\* the catalog fails with an error on every export path (to_dict,
\* export_to_json, save_json_to_file): no document is yielded and the failure is
\* not turned into a normal return value.
C21_ForeignIdFailsLoudly ==
    (~IsNone(probe) /\ HoldsForeignResponse(form_session)) =>
        \A k \in 1..Len(Value(probe).calls) :
           /\ Value(probe).calls[k].raised
           /\ IsNone(Value(probe).calls[k].returned)
           /\ IsNone(Value(probe).calls[k].document)

SystemErrors(errors) == SelectSeq(errors, LAMBDA m : ~IsRuleError(m))
\* The messages a line-by-line validation_error shows.
Shown(error) == IF IsNone(error) THEN {} ELSE { Value(error)[k] : k \in 1..Len(Value(error)) }
\* C23: a storage fault (a failed put_object, a configuration failure, any
\* exception during the upload) is never shown verbatim: whenever the error list
\* returned by the storage call holds a system error, the validation_error set
\* by the file-upload advance is one fixed generic message, with none of the
\* underlying error text in it, and the advance returns (cursor and session as
\* they were) instead of raising.
C23_StorageFaultsStayGeneric ==
    (IsNone(probe) /\ last.op = "advance") =>
        /\ Len(SystemErrors(last.errors)) > 0 =>
              /\ validation_error =
                    Some(<< Msg("Unable to upload files at this time. Please try again later or contact support if the problem persists.", 0, 0) >>)
              /\ \A i \in 1..Len(last.errors) : last.errors[i] \notin Shown(validation_error)
              /\ ~last.accepted
              /\ last.moved = 0
        /\ last.storage \in {"KeyError", "Exception"} =>
              /\ Shown(validation_error) \subseteq
                    { Msg("Unable to upload files at this time. Please try again later or contact support if the problem persists.", 0, 0),
                      Msg("File storage is not configured. Please contact support.", 0, 0) }
              /\ Shown(validation_error) # {}
              /\ ~last.accepted
              /\ last.moved = 0
\* put_object failed for one file of a batch whose files all pass the rules.
C23_Witness ==
    /\ IsNone(probe)
    /\ last.op = "advance"
    /\ Len(last.errors) = 1
    /\ Len(SystemErrors(last.errors)) = 1
    /\ Cardinality(last.written) = 4
    /\ ~IsNone(validation_error)

\* ---- C24
\* C24: every validation error produced during a rejected advance (required
\* missing, text length, selection count, invalid option, invalid e-mail, file
\* count, size or type) is surfaced verbatim in validation_error; in particular
\* every file validation error batch_upload_files returned for a submission is
\* in the message shown for that submission.
C24_ValidationErrorsVerbatim ==
    [][ /\ (ClickNext /\ ~last'.accepted) =>
             LET question == QuestionAt(current_question_index)
                 answer == PendingAnswer(question, Widgets)
             IN  IF question.type = FILE_UPLOAD
                 THEN \A i \in 1..Len(last'.errors) :
                         IsRuleError(last'.errors[i]) =>
                            last'.errors[i] \in Shown(validation_error')
                 ELSE validation_error' =
                         Some(<< Value(validate_response(question, answer).error) >>)
        /\ (ClickSubmit /\ ~last'.accepted) =>
             validation_error' = Some(<< Value(validate_email(Some(email_input)).error) >>)
      ]_vars

\* ---- C25
\* C25: go_back_to_previous_question at any cursor > 0 decrements the cursor by
\* one and clears validation_error, and leaves unchanged every committed
\* Response, the session_id, r2_folder_path, started_at, completion_status,
\* user_email and completed_at. Stated of every "Back" step, and of the function
\* applied to the store of the state with its cursor set anywhere in 1..N+1.
C25_BackOnlyMovesCursor ==
    [][ /\ ClickBack =>
             /\ current_question_index > 0
             /\ current_question_index' = current_question_index - 1
             /\ validation_error' = None
             /\ form_session'.all_responses = form_session.all_responses
             /\ form_session' = form_session
        /\ \A k \in 1..(N + 1) :
             LET old == [Store EXCEPT !.current_question_index = k]
                 new == go_back_to_previous_question(old)
             IN  /\ new.current_question_index = k - 1
                 /\ new.validation_error = None
                 /\ new.form_session = old.form_session
      ]_vars
\* Back from the e-mail step, all N Responses in place.
C25_Witness ==
    /\ IsNone(probe)
    /\ last.op = "back"
    /\ last.from = N
    /\ last.moved = 0 - 1
    /\ current_question_index = N - 1
    /\ Len(form_session.all_responses) = N
    /\ IsNone(validation_error)

\* ---- C26
\* State part: the exports made of the session so far, whatever the clock read
\* in between, yielded the same document, and in it submitted_at, user_email and
\* completion_time_minutes are null exactly when the session is not completed.
C26_SameDocument ==
    (~IsNone(probe) /\ ~HoldsForeignResponse(form_session)) =>
        \A k \in 1..Len(Value(probe).calls) :
           LET call == Value(probe).calls[k]
               meta == Value(call.document).submission_metadata
           IN  (Value(probe).disk = "ok") =>
                 /\ ~call.raised
                 /\ call.document = Value(probe).calls[1].document
                 /\ Value(call.document) = to_dict(form_session, questions_map)
                 /\ IsNone(meta.submitted_at) <=> ~form_session.completion_status
                 /\ IsNone(meta.user_email) <=> ~form_session.completion_status
                 /\ IsNone(meta.completion_time_minutes) <=> ~form_session.completion_status
\* Step part: an export leaves the session and the clock as they were.
C26_ExportChangesNothing ==
    [][(probe' # probe) => (form_session' = form_session /\ now' = now)]_vars
AnsweredIds(session) ==
    { session.all_responses[i].question_id : i \in 1..Len(session.all_responses) }
\* State part: with the cursor at k, each of the first min(k, N) questions of the
\* catalog has a committed Response.
C27_AnsweredUpToCursor ==
    IsNone(probe) =>
        \A i \in 1..(IF current_question_index < N THEN current_question_index ELSE N) :
           QUESTIONS[i].id \in AnsweredIds(form_session)
\* Step part: the set of answered question ids shrinks only when the session is
\* replaced at reset.
C27_AnsweredNeverShrinks ==
    [][form_session'.session_id = form_session.session_id
         => AnsweredIds(form_session) \subseteq AnsweredIds(form_session')]_vars
\* C27: in every reachable state with cursor = k, each of the first min(k, N)
\* catalog questions has a committed Response (so the e-mail step, cursor N, and
\* completion, cursor N+1, are reached only with all N questions answered), and
\* the set of answered question ids never shrinks until reset.
C27_AnswersCoverCursor == []C27_AnsweredUpToCursor /\ C27_AnsweredNeverShrinks
\* The e-mail step reached by a run that was not straight through (a rejected
\* answer or a retreat on the way).
C27_Witness ==
    /\ IsNone(probe)
    /\ current_question_index = N
    /\ last.op = "advance"
    /\ scenario = 0 - 1
    /\ AnsweredIds(form_session) = QuestionIds

\* ---- C28
\* C28: in every reachable state completion_status is true if and only if the
\* cursor is at the terminal position N+1: a completed session is never found at
\* a question or at the e-mail step, and the terminal position is never reached
\* without mark_complete having run (e-mail and completion time stored).
C28_CompletedIffTerminal ==
    IsNone(probe) =>
        /\ form_session.completion_status <=> current_question_index = N + 1
        /\ current_question_index = N + 1 =>
              /\ ~IsNone(form_session.user_email)
              /\ ~IsNone(form_session.completed_at)
        /\ current_question_index <= N =>
              /\ IsNone(form_session.user_email)
              /\ IsNone(form_session.completed_at)
\* A session completed at a later reading of the clock than the one it started at.
C28_Witness ==
    /\ IsNone(probe)
    /\ form_session.completion_status
    /\ current_question_index = N + 1
    /\ last.op = "submit"
    /\ form_session.completed_at = Some(form_session.started_at + 1)

\* ---- C29
\* "<k> files uploaded", digit by digit.
NamesCount(text, k) ==
    text = (IF k >= 10 THEN ToString(k \div 10) ELSE "") \o ToString(k % 10) \o " files uploaded"
\* C29: in every reachable state every Response stored in the session has
\* validation_status true and a value that satisfies its question's rule: for a
\* question that is not a file upload the stored answer_value is accepted by
\* validate_response for that question; for the file-upload question the number
\* of file_references lies in [min_files, max_files] and is the count named in
\* its answer_value ("<k> files uploaded").
C29_StoredAnswersValid ==
    IsNone(probe) =>
        \A i \in 1..Len(form_session.all_responses) :
           LET response == form_session.all_responses[i]
               question == CatalogQuestion(response.question_id)
               k == Len(response.file_references)
           IN  /\ response.validation_status = TRUE
               /\ IF question.type = FILE_UPLOAD
                  THEN /\ Value(question.validation.min_files) <= k
                       /\ k <= Value(question.validation.max_files)
                       /\ response.answer_value.kind = "str"
                       /\ NamesCount(response.answer_value.text, k)
                  ELSE validate_response(question, response.answer_value).ok
\* All N questions answered, one of the answers a padded text and one the upload.
C29_Witness ==
    /\ IsNone(probe)
    /\ Len(form_session.all_responses) = N
    /\ \E i \in 1..N : form_session.all_responses[i].answer_value.lead > 0
    /\ \E i \in 1..N : Len(form_session.all_responses[i].file_references) = 5

\* ---- C30
CatalogIndex(id) == CHOOSE i \in 1..N : QUESTIONS[i].id = id
\* The entries of a responses array follow the order of QUESTIONS.
InCatalogOrder(responses) ==
    \A j, k \in 1..Len(responses) :
        j < k => CatalogIndex(responses[j].r.question_id) < CatalogIndex(responses[k].r.question_id)
\* C30: in every state reachable through navigation, histories with retreats
\* and re-answers included, the responses array of the export (of the session
\* as it stands, and of the document stored at submission) lists the answered
\* questions in catalog order.
C30_ExportInCatalogOrder ==
    IsNone(probe) =>
        /\ InCatalogOrder(Value(export_to_json(form_session, questions_map).json).responses)
        /\ ~IsNone(completion_json) => InCatalogOrder(Value(completion_json).responses)
\* A retreat followed by a re-answer of the first question while later answers
\* are held.
C30_Witness ==
    /\ IsNone(probe)
    /\ last.op = "advance"
    /\ last.replaced
    /\ last.from = 0
    /\ Len(Value(export_to_json(form_session, questions_map).json).responses) >= 2

\* ---- C31
\* An answer that satisfies its question's rule, stated without the handlers:
\* the validator's verdict for a widget answer, the four upload rules for files.
AnswerValid(question, answer) ==
    IF question.type = FILE_UPLOAD
    THEN /\ Truthy(answer)
         /\ CountOK(answer.files, Q45Rules)
         /\ TotalOK(answer.files, Q45Rules)
         /\ FailingFiles(answer.files, Q45Rules) = {}
    ELSE validate_response(question, answer).ok
Terminal == current_question_index = N + 1 /\ form_session.completion_status

\* The respondent of a session that finishes: the page is started; a valid
\* answer (a valid e-mail) is put into the widget again and again; whenever valid
\* input is on display again and again, the click on it goes through (storage
\* working) again and again; Back is clicked only finitely often.
ValidAnswerPending ==
    /\ NextRendered
    /\ AnswerValid(QuestionAt(current_question_index),
                   PendingAnswer(QuestionAt(current_question_index), Widgets))
ValidEmailPending == SubmitRendered /\ validate_email(Some(email_input)).ok
Moved == current_question_index' = current_question_index + 1
Persistent ==
    /\ WF_vars(Start)
    /\ SF_vars(EditAnswer /\ ValidAnswerPending')
    /\ SF_vars(EditEmail /\ ValidEmailPending')
    /\ []<>(ValidAnswerPending \/ ValidEmailPending) => []<><<Moved>>_vars
    /\ <>[][~ClickBack]_vars
\* One session from its creation to the completion page.
NextLive ==
    \/ Start
    \/ EditAnswer
    \/ EditEmail
    \/ ClickNext
    \/ ClickBack
    \/ ClickSubmit
SpecLive == Init /\ [][NextLive]_vars /\ Persistent
\* Step part: whatever was rejected before, Next on a valid answer with storage
\* working moves on and clears the error, and Submit on a valid e-mail completes.
C31_ValidInputAccepted ==
    [][/\ (/\ ClickNext
           /\ ValidAnswerPending
           /\ last'.storage \in {"none", "ok"}
           /\ last'.errors = << >>)
          => /\ current_question_index' = current_question_index + 1
             /\ validation_error' = None
       /\ (ClickSubmit /\ validate_email(Some(email_input)).ok)
          => /\ current_question_index' = N + 1
             /\ validation_error' = None
             /\ form_session'.completion_status]_vars
NoRepeats(seq) == \A i, j \in 1..Len(seq) : seq[i] = seq[j] => i = j
\* The files of a batch that pass the per-file rules, in the order of the batch.
FilesToStore(files, rules) ==
    LET passing == SelectSeq(files, LAMBDA f : SizeOK(f, rules) /\ TypeOK_(f, rules))
    IN  [i \in 1..Len(passing) |-> passing[i].stem]
\* Step part (an advance is the one step that records op "advance" in last):
\* an advance that gets as far as the per-file loop has put_object
\* called once for each file passing the per-file rules, in order, whichever
\* of the calls fail; any other advance calls it for none.
C33_OneCallAFile ==
    [][(last' # last /\ last'.op = "advance") =>
         LET question == QuestionAt(current_question_index)
             answer == PendingAnswer(question, Widgets)
         IN  IF /\ question.type = FILE_UPLOAD
                /\ Truthy(answer)
                /\ last'.storage = "ok"
                /\ CountOK(answer.files, Q45Rules)
                /\ TotalOK(answer.files, Q45Rules)
             THEN last'.put_calls = FilesToStore(answer.files, Q45Rules)
             ELSE last'.put_calls = << >>]_vars
\* C33: no external capability is retried: one submit_questionnaire call
\* attempts each e-mail transport at most once, and one batch_upload_files call
\* attempts the storage write at most once for each file of the batch and goes
\* on with the remaining files after a failed write.
C33_NoRetries ==
    /\ [](IsNone(probe) =>
            /\ NoRepeats(last.put_calls)
            /\ ~IsNone(delivery) =>
                  /\ NoRepeats(Value(delivery).attempts)
                  /\ \A k \in 1..Len(Value(delivery).attempts) :
                        Value(delivery).attempts[k] \in {"yagmail", "smtp"})
    /\ C33_OneCallAFile
\* An upload whose first write failed: put_object was still called for each of
\* the five files, and the four files after the first were stored.
C33_Witness ==
    /\ IsNone(probe)
    /\ last.op = "advance"
    /\ last.put_calls = << 1, 2, 3, 4, 5 >>
    /\ Len(last.errors) = 1
    /\ ~IsRuleError(last.errors[1])
    /\ Cardinality(last.written) = 4

\* ---- C34
CheckboxShown == NextRendered /\ QuestionAt(current_question_index).type = CHECKBOXES
\* Step part: an accepted advance on a multi-choice question commits the options
\* checked in the widgets when Next was clicked.
C34_CommitsWhatIsChecked ==
    [][(CheckboxShown /\ current_question_index' = current_question_index + 1) =>
         LET question == QuestionAt(current_question_index)
         IN  Value(get_response(form_session', question.id)).answer_value = Value(input)]_vars
\* C34: for a multi-choice question the selection buffer read by
\* advance_to_next_question (checkbox_selections_<id>) holds, whenever the
\* question is on display, exactly the options whose checkbox is checked, so the
\* value validated and committed on advance is what the respondent selected and
\* never a stale or divergent copy.
C34_BufferIsWhatIsChecked ==
    /\ [](IsNone(probe) /\ CheckboxShown =>
            LET question == QuestionAt(current_question_index)
            IN  /\ ~IsNone(input)
                /\ ~IsNone(checkbox_selections[question.id])
                /\ Value(checkbox_selections[question.id]) = Value(input).items
                /\ PendingAnswer(question, Widgets) = Value(input))
    /\ C34_CommitsWhatIsChecked
\* A multi-choice question answered again after a retreat, with a selection
\* other than the one accepted before.
C34_Witness ==
    /\ IsNone(probe)
    /\ last.op = "advance"
    /\ last.accepted
    /\ last.replaced
    /\ QuestionAt(last.from).type = CHECKBOXES
    /\ Len(Value(get_response(form_session, QuestionAt(last.from).id)).answer_value.items) = 2

====
